---- MODULE Spec2Model ----
(***************************************************************************)
(* A model of the scenario execution engine of alt-core-js:               *)
(*   - the orchestrator (index.ts, processScenarios and what follows it),  *)
(*   - the scenario runner (index.ts, invokeActionsSynchronously),         *)
(*   - the invocations of the action variants (RestAction, MqttAction,     *)
(*     MqttPublishAction, WebSocketAction).                                *)
(*   - the attempts and the response handler of a REST invocation, and     *)
(*     the scenario caches it writes,                                      *)
(*   - fromTemplate of RestAction, WebSocketAction and MqttAction,         *)
(*   - encodeProto and decodeProto (protoParsing.ts).                      *)
(* The program runs on one JavaScript event loop: a callback runs to its   *)
(* end, and the promise continuations it makes runnable (microtasks) run   *)
(* before the next I/O event is delivered.  Each handler is one action;    *)
(* I/O events are enabled only when no continuation is runnable.           *)
(***************************************************************************)
EXTENDS Integers, Sequences, FiniteSets, TLC

\* ------------------------------------------------------------------------
\* Program constants
\* ------------------------------------------------------------------------
NUM_PARALLEL_RUNS == 10

MAX_RECONNECTIONS == 3

\* ------------------------------------------------------------------------
\* Bounds of the model
\* ------------------------------------------------------------------------
\* inbound messages delivered to one invocation
MaxMsgs == 2

\* connection drops (closes the client did not ask for) of one MQTT client
MaxDrops == 1

\* scenarios of the batch specification (NUM_PARALLEL_RUNS + 1 at least)
NumScenarios == 11

None == "none"

\* ------------------------------------------------------------------------
\* Action definitions: the objects the loader hands to the runner
\* ------------------------------------------------------------------------
Defs == {"r1", "r2", "r3", "m1", "m2", "m3", "p1", "w1", "w2", "w3", "w4"}

\* Action.type
ActionType(d) ==
    CASE d \in {"r1", "r2", "r3"} -> "REST"
      [] d \in {"m1", "m2", "m3"} -> "MQTT"
      [] d = "p1" -> "MQTT_PUBLISH"
      [] d \in {"w1", "w2", "w3", "w4"} -> "WEBSOCKET"

\* inbound message texts; "x" fails every configured filter predicate
Messages == {"a", "b", "x"}

\* inbound payloads JSON.parse (or the proto decoder) throws on
Unparsable == {"bad"}

\* MqttAction.expectedNumberOfMessages / WebSocketAction.expectedNumberOfMessages
expectedNumberOfMessages(d) == IF d = "w2" THEN 0 ELSE 1

\* messageFilter: whether the definition configures one, and the list of its
\* predicates, each given by the set of messages it is truthy for ("m2" and
\* "w3" configure an empty list, "m3" and "w4" no list)
messageFilter(d) ==
    CASE d \in {"m2", "w3"} -> [defined |-> TRUE, filters |-> << >>]
      [] d \in {"m3", "w4"} -> [defined |-> FALSE, filters |-> << >>]
      [] OTHER -> [defined |-> TRUE, filters |-> << {"a", "b"} >>]

\* WebSocketAction.data: whether an initial payload is configured
data(d) == d = "w1"

\* isMessageRelevant: registeredMessageFilters.some(...) or true without filters
isMessageRelevant(d, msg) ==
    IF messageFilter(d).defined
    THEN \E k \in 1..Len(messageFilter(d).filters) : msg \in messageFilter(d).filters[k]
    ELSE TRUE

\* --- REST definitions ---
\* requestOptions.maxAttempts
maxAttempts == 3

\* HTTP status codes of the responses
Statuses == {200, 404, 503}

\* response headers: "h1" passes every head. predicate, "h2" makes head.a
\* falsy, "hT" makes head.a throw, "h3" makes head.b falsy
HeadVals == {"h1", "h2", "hT", "h3"}

\* response bodies: "null" is no body, "malformed" is application/json text
\* JSON.parse rejects; "b1" passes every res. predicate, "b2" makes res.a
\* falsy, "bT" makes res.a throw
BodyVals == {"null", "b1", "b2", "bT", "malformed"}

Responses == [status : Statuses, head : HeadVals, body : BodyVals]

\* RestAction.expectedStatusCodes (constructor default)
expectedStatusCodes(d) == {200, 201, 204}

\* RestAction.responseValidation: the predicate expressions, in order
responseValidation(d) ==
    IF d = "r2" THEN << "head.a", "head.b", "res.a", "res.b" >> ELSE << >>

\* v.startsWith('head.') / v.startsWith('res.') of the filters
HeadPredicates == {"head.a", "head.b"}

ResPredicates == {"res.a", "res.b"}

\* eval(validation) with head / res bound to the response value
Eval(validation, val) ==
    CASE validation = "head.a" /\ val = "h2" -> "falsy"
      [] validation = "head.a" /\ val = "hT" -> "throws"
      [] validation = "head.b" /\ val = "h3" -> "falsy"
      [] validation = "res.a" /\ val = "b2" -> "falsy"
      [] validation = "res.a" /\ val = "bT" -> "throws"
      [] OTHER -> "truthy"

\* the keys of the scenario caches
CacheKeys == {"kh", "kr", "kx"}

\* the cache of a new Scenario: no entry
NewCache == [k \in CacheKeys |-> None]

\* RestAction.variables: whether the definition has the map, and for each of
\* its keys the start of the source expression ("res", "head" or another)
variables(d) ==
    CASE d = "r2" -> [defined |-> TRUE,
                      rules |-> [kh |-> "head", kr |-> "res", kx |-> "other"]]
      [] d = "r3" -> [defined |-> TRUE, rules |-> [kr |-> "res"]]
      [] OTHER -> [defined |-> FALSE, rules |-> << >>]

\* ------------------------------------------------------------------------
\* State
\* ------------------------------------------------------------------------
VARIABLES
    scenarios,      \* Scenario[]: scenarios[s] is the action list of scenario s
    orch,           \* processScenarios: position, batch start i, map index
    run,            \* per scenario: invokeActionsSynchronously' locals and position
    RESULTS,        \* the module's RESULTS map: scenario -> list of TestResult (keys: the scenarios started)
    invs,           \* every invocation made so far (handle, promise, connection)
    numberOfReceivedMessages,  \* MqttAction field, per definition
    reconnected,    \* WebSocketAction field, per definition
    receivedMessages,          \* WebSocketAction field, per definition
    wsInstance,     \* WebSocketAction field: the invocation owning the latest socket, 0: undefined
    diagram,        \* calls made to the diagram recorder
    exitStatus,     \* "running", "exit1" (process.exit(1)) or "uncaught"
    cache,          \* Scenario.cache, per scenario: key -> value, None: no entry
    derived,        \* a call of fromTemplate: its arguments and the action it returns
    codec           \* a call of encodeProto and of decodeProto on its bytes

vars == << scenarios, orch, run, RESULTS, invs, numberOfReceivedMessages,
           reconnected, receivedMessages, wsInstance, diagram, exitStatus,
           cache, derived, codec >>

Scen == 1..Len(scenarios)

Handles == 1..Len(invs)

\* whether resolving an action's parameters against the scenario cache
\* (injectEvalAndVarsToString / injectEvalAndVarsToMap) throws
ResolverThrows == BOOLEAN

\* a promise whose last resolve or reject wins
SettleLastWins(p, outcome) == outcome

\* a promise settles once: the first resolve or reject wins
Settle(p, outcome) == IF p = "pending" THEN outcome ELSE p

\* ------------------------------------------------------------------------
\* invoke(scenario) of the four variants: the part that runs synchronously
\* inside `new Promise(...)`.  `th` says that resolving the action's
\* parameters against the scenario cache throws (an exception inside a
\* promise executor rejects the promise).
\* ------------------------------------------------------------------------
NoInv(d, s) ==
    [ def |-> d, scen |-> s, promise |-> "pending", cancelCalls |-> 0,
      req |-> None,                       \* REST: "pending" while a request is out
      conn |-> None, subPending |-> 0, subscribed |-> FALSE, timers |-> 0,
      drops |-> 0, delivered |-> 0,       \* MQTT client
      sock |-> None, sockets |-> 0, sent |-> 0,   \* WebSocket
      timerFired |-> FALSE, errorSeen |-> FALSE, own |-> {}, ownCount |-> 0,
      attempts |-> 0,                     \* REST: HTTP attempts of the request that is out
      publishes |-> 0, pubPending |-> 0,  \* MQTT publish: client.publish calls, callbacks due
      seen |-> cache[s] ]                 \* the cache entries the resolver reads

RestInvoke(d, s, th) ==
    IF th THEN [NoInv(d, s) EXCEPT !.promise = "rejected"]
    ELSE [NoInv(d, s) EXCEPT !.req = "pending", !.attempts = 1]

MqttInvoke(d, s, th) ==
    IF th THEN [NoInv(d, s) EXCEPT !.promise = "rejected"]
    ELSE [NoInv(d, s) EXCEPT !.conn = "connecting"]

\* an invoke that leaves the promise to the client's events
MqttPublishInvokePending(d, s) == [NoInv(d, s) EXCEPT !.conn = "connecting"]

MqttPublishInvoke(d, s) ==
    [NoInv(d, s) EXCEPT !.promise = "resolved", !.conn = "connecting"]

WebSocketInvoke(d, s, th) ==
    IF th THEN [NoInv(d, s) EXCEPT !.promise = "rejected"]
    ELSE [NoInv(d, s) EXCEPT !.sock = "connecting", !.sockets = 1]

Invoke(d, s, th) ==
    CASE ActionType(d) = "REST" -> RestInvoke(d, s, th)
      [] ActionType(d) = "MQTT" -> MqttInvoke(d, s, th)
      [] ActionType(d) = "MQTT_PUBLISH" -> MqttPublishInvoke(d, s)
      [] ActionType(d) = "WEBSOCKET" -> WebSocketInvoke(d, s, th)

\* WebSocket.close() of the ws library on a socket in state st
SocketClose(st) ==
    CASE st = "connecting" -> "aborted"   \* handshake aborted: error, then close
      [] st = "open" -> "closing"
      [] OTHER -> st

\* ------------------------------------------------------------------------
\* Scenario runner
\* ------------------------------------------------------------------------
\* a cancel loop that stops after its first handle
CancelFirstOnly(iv, hs, k) ==
    IF k > Len(hs) THEN [invs |-> iv, threw |-> FALSE]
    ELSE LET h == hs[k]
             called == [iv EXCEPT ![h].cancelCalls = @ + 1]
             t == wsInstance[iv[h].def]
         IN IF t = 0 THEN [invs |-> called, threw |-> TRUE]
            ELSE [invs |-> [called EXCEPT ![t].sock = SocketClose(@)], threw |-> FALSE]

\* ASYNC_ACTIONS.forEach(callback => callback.cancel()), from the k-th handle on.
\* cancel() of a WebSocket handle is this.wsInstance.close(): it throws when
\* the definition never created a socket, and forEach stops there.
RECURSIVE CancelFrom(_, _, _)
CancelFrom(iv, hs, k) ==
    IF k > Len(hs) THEN [invs |-> iv, threw |-> FALSE]
    ELSE LET h == hs[k]
             called == [iv EXCEPT ![h].cancelCalls = @ + 1]
             t == wsInstance[iv[h].def]
         IN IF t = 0 THEN [invs |-> called, threw |-> TRUE]
            ELSE CancelFrom([called EXCEPT ![t].sock = SocketClose(@)], hs, k + 1)

\* the flags of the action definitions
invokeEvenOnFail(d) == d \in {"r1", "r3", "p1"}

allowFailure(d) == d \in {"r2", "w1", "m1"}

\* a loop head that invokes an action with invokeEvenOnFail after a failure
LoopHeadInvokeEvenOnFail(s, i, ok, results, th) ==
    IF i <= Len(scenarios[s]) /\ (ok \/ invokeEvenOnFail(scenarios[s][i]))
    THEN LET d == scenarios[s][i]
             h == Len(invs) + 1
             ws == ActionType(d) = "WEBSOCKET"
         IN /\ invs' = Append(invs, Invoke(d, s, th))
            /\ wsInstance' = IF ws /\ ~th THEN [wsInstance EXCEPT ![d] = h]
                             ELSE wsInstance
            /\ run' = [run EXCEPT ![s] =
                          [ pc |-> "await", idx |-> i, successful |-> ok, cur |-> h,
                            ASYNC_ACTIONS |-> IF ws THEN Append(run[s].ASYNC_ACTIONS, h)
                                              ELSE run[s].ASYNC_ACTIONS ]]
            /\ RESULTS' = (s :> results) @@ RESULTS
    ELSE LET c == CancelFrom(invs, run[s].ASYNC_ACTIONS, 1)
         IN /\ invs' = c.invs
            /\ wsInstance' = wsInstance
            /\ run' = [run EXCEPT ![s].pc = IF c.threw THEN "threw" ELSE "done",
                                  ![s].successful = ok]
            /\ RESULTS' = (s :> results) @@ RESULTS

\* a loop head without `if (!successful) break`
LoopHeadNoBreak(s, i, ok, results, th) ==
    IF i <= Len(scenarios[s])
    THEN LET d == scenarios[s][i]
             h == Len(invs) + 1
             ws == ActionType(d) = "WEBSOCKET"
         IN /\ invs' = Append(invs, Invoke(d, s, th))
            /\ wsInstance' = IF ws /\ ~th THEN [wsInstance EXCEPT ![d] = h]
                             ELSE wsInstance
            /\ run' = [run EXCEPT ![s] =
                          [ pc |-> "await", idx |-> i, successful |-> ok, cur |-> h,
                            ASYNC_ACTIONS |-> IF ws THEN Append(run[s].ASYNC_ACTIONS, h)
                                              ELSE run[s].ASYNC_ACTIONS ]]
            /\ RESULTS' = (s :> results) @@ RESULTS
    ELSE LET c == CancelFrom(invs, run[s].ASYNC_ACTIONS, 1)
         IN /\ invs' = c.invs
            /\ wsInstance' = wsInstance
            /\ run' = [run EXCEPT ![s].pc = IF c.threw THEN "threw" ELSE "done",
                                  ![s].successful = ok]
            /\ RESULTS' = (s :> results) @@ RESULTS

\* One pass through the head of `for (const action of scenario.actions)`:
\* either the i-th action is invoked and awaited, or the loop is left (the
\* list is exhausted, or `if (!successful) break`) and the handles collected
\* in ASYNC_ACTIONS are cancelled.
LoopHead(s, i, ok, results, th) ==
    IF ok /\ i <= Len(scenarios[s])
    THEN LET d == scenarios[s][i]
             h == Len(invs) + 1
             ws == ActionType(d) = "WEBSOCKET"
         IN /\ invs' = Append(invs, Invoke(d, s, th))
            /\ wsInstance' = IF ws /\ ~th THEN [wsInstance EXCEPT ![d] = h]
                             ELSE wsInstance
            /\ run' = [run EXCEPT ![s] =
                          [ pc |-> "await", idx |-> i, successful |-> ok, cur |-> h,
                            ASYNC_ACTIONS |-> IF ws THEN Append(run[s].ASYNC_ACTIONS, h)
                                              ELSE run[s].ASYNC_ACTIONS ]]
            /\ RESULTS' = (s :> results) @@ RESULTS
    ELSE LET c == CancelFrom(invs, run[s].ASYNC_ACTIONS, 1)
         IN /\ invs' = c.invs
            /\ wsInstance' = wsInstance
            /\ run' = [run EXCEPT ![s].pc = IF c.threw THEN "threw" ELSE "done",
                                  ![s].successful = ok]
            /\ RESULTS' = (s :> results) @@ RESULTS

\* a TestResult that is always a success
TestResultAlwaysOk(d, ok) == [action |-> d, successful |-> TRUE]

\* new TestResult(action.description, duration, successful)
TestResult(d, ok) == [action |-> d, successful |-> ok]

\* the slice of the batch that starts at scenario i
Slice(i) == { s \in Scen : s >= i /\ s < i + NUM_PARALLEL_RUNS }

\* invokeActionsSynchronously(scenario) up to its first await, called by
\* .map() for the scenarios of the slice one after the other
StartScenario(th) ==
    /\ exitStatus = "running"
    /\ orch.pc = "map"
    /\ LET s == orch.mapIdx
       IN /\ LoopHead(s, 1, TRUE, << >>, th)
          /\ orch' = IF s + 1 \in Slice(orch.i)
                     THEN [orch EXCEPT !.mapIdx = s + 1]
                     ELSE [orch EXCEPT !.pc = "await"]
          /\ diagram' = diagram \cup {[kind |-> "init", scen |-> s]}
    /\ UNCHANGED << codec, cache, derived, scenarios, numberOfReceivedMessages, reconnected,
                    receivedMessages, exitStatus >>

\* a runner that goes on without awaiting the invocation's completion
RunnerResumeNoAwait(s, th) ==
    /\ exitStatus = "running"
    /\ orch.pc # "map"
    /\ run[s].pc = "await"
    /\ LET h == run[s].cur
           ok == invs[h].promise # "rejected"
           d == scenarios[s][run[s].idx]
       IN LoopHead(s, run[s].idx + 1, ok, Append(RESULTS[s], TestResult(d, ok)), th)
    /\ UNCHANGED << codec, cache, derived, scenarios, orch, numberOfReceivedMessages, reconnected,
                    receivedMessages, diagram, exitStatus >>

\* a runner that awaits every invocation but those of WebSocket actions
RunnerResumeSkipWebSocket(s, th) ==
    /\ exitStatus = "running"
    /\ orch.pc # "map"
    /\ run[s].pc = "await"
    /\ \/ invs[run[s].cur].promise # "pending"
       \/ ActionType(invs[run[s].cur].def) = "WEBSOCKET"
    /\ LET h == run[s].cur
           ok == invs[h].promise # "rejected"
           d == scenarios[s][run[s].idx]
       IN LoopHead(s, run[s].idx + 1, ok, Append(RESULTS[s], TestResult(d, ok)), th)
    /\ UNCHANGED << codec, cache, derived, scenarios, orch, numberOfReceivedMessages, reconnected,
                    receivedMessages, diagram, exitStatus >>

\* The continuation of `await actionCallback.promise.then(...).catch(...)`:
\* the TestResult is appended (by the then-callback or by handleError), then
\* `if (!successful) break` and the next pass through the loop head.
RunnerResume(s, th) ==
    /\ exitStatus = "running"
    /\ orch.pc # "map"
    /\ run[s].pc = "await"
    /\ invs[run[s].cur].promise # "pending"
    /\ LET h == run[s].cur
           ok == invs[h].promise = "resolved"
           d == scenarios[s][run[s].idx]
       IN LoopHead(s, run[s].idx + 1, ok, Append(RESULTS[s], TestResult(d, ok)), th)
    /\ UNCHANGED << codec, cache, derived, scenarios, orch, numberOfReceivedMessages, reconnected,
                    receivedMessages, diagram, exitStatus >>

\* ------------------------------------------------------------------------
\* Orchestrator
\* ------------------------------------------------------------------------
\* an error check that looks at the first scenario only
AnyErrorFirstOnly ==
    \E s \in DOMAIN RESULTS \cap {1} :
        \E k \in 1..Len(RESULTS[s]) : RESULTS[s][k].successful = FALSE

\* res.some(t => t.successful === false) over the RESULTS map
AnyError ==
    \E s \in DOMAIN RESULTS :
        \E k \in 1..Len(RESULTS[s]) : RESULTS[s][k].successful = FALSE

\* a join that goes on as soon as one scenario of the batch has finished
BatchJoinFirstDone ==
    /\ exitStatus = "running"
    /\ orch.pc = "await"
    /\ \E s \in Slice(orch.i) : run[s].pc = "done"
    /\ IF orch.i + NUM_PARALLEL_RUNS <= Len(scenarios)
       THEN /\ orch' = [orch EXCEPT !.pc = "map", !.i = @ + NUM_PARALLEL_RUNS,
                                    !.mapIdx = orch.i + NUM_PARALLEL_RUNS]
            /\ diagram' = diagram
       ELSE /\ orch' = [orch EXCEPT !.pc = "diagrams", !.printed = TRUE,
                                    !.anyError = AnyError]
            /\ diagram' = diagram \cup
                   {[kind |-> "generate", scen |-> s] : s \in DOMAIN RESULTS}
    /\ UNCHANGED << codec, cache, derived, scenarios, run, RESULTS, invs, numberOfReceivedMessages,
                    reconnected, receivedMessages, wsInstance, exitStatus >>

\* `await Promise.all(...)` of processScenarios is fulfilled: the next batch
\* is mapped, or the loop is over: printResults() and
\* stopProcessIfUnsuccessfulResults() up to its own await
BatchJoin ==
    /\ exitStatus = "running"
    /\ orch.pc = "await"
    /\ \A s \in Slice(orch.i) : run[s].pc = "done"
    /\ IF orch.i + NUM_PARALLEL_RUNS <= Len(scenarios)
       THEN /\ orch' = [orch EXCEPT !.pc = "map", !.i = @ + NUM_PARALLEL_RUNS,
                                    !.mapIdx = orch.i + NUM_PARALLEL_RUNS]
            /\ diagram' = diagram
       ELSE /\ orch' = [orch EXCEPT !.pc = "diagrams", !.printed = TRUE,
                                    !.anyError = AnyError]
            /\ diagram' = diagram \cup
                   {[kind |-> "generate", scen |-> s] : s \in DOMAIN RESULTS}
    /\ UNCHANGED << codec, cache, derived, scenarios, run, RESULTS, invs, numberOfReceivedMessages,
                    reconnected, receivedMessages, wsInstance, exitStatus >>

\* Promise.all rejects as soon as one scenario's promise is rejected (its
\* cancel loop threw); processScenarios ends with an unhandled rejection
BatchReject ==
    /\ exitStatus = "running"
    /\ orch.pc = "await"
    /\ \E s \in Slice(orch.i) : run[s].pc = "threw"
    /\ orch' = [orch EXCEPT !.pc = "rejected"]
    /\ UNCHANGED << codec, cache, derived, scenarios, run, RESULTS, invs, numberOfReceivedMessages,
                    reconnected, receivedMessages, wsInstance, diagram, exitStatus >>

\* a continuation is runnable: no I/O event is delivered before it has run
MicrotaskPending ==
    \/ orch.pc = "map"
    \/ \E s \in Scen : run[s].pc = "await" /\ invs[run[s].cur].promise # "pending"
    \/ orch.pc = "await" /\ \A s \in Slice(orch.i) : run[s].pc = "done"
    \/ orch.pc = "await" /\ \E s \in Slice(orch.i) : run[s].pc = "threw"

Quiescent == exitStatus = "running" /\ ~MicrotaskPending

\* every generateSequenceDiagram promise is resolved: `await Promise.all(diagrams)`
\* continues with `if (anyError) process.exit(1)`
DiagramsDone ==
    /\ Quiescent
    /\ orch.pc = "diagrams"
    /\ diagram' = diagram \cup
           {[kind |-> "generated", scen |-> s] : s \in DOMAIN RESULTS}
    /\ IF orch.anyError
       THEN orch' = [orch EXCEPT !.pc = "exited"] /\ exitStatus' = "exit1"
       ELSE orch' = [orch EXCEPT !.pc = "returned"] /\ exitStatus' = exitStatus
    /\ UNCHANGED << codec, cache, derived, scenarios, run, RESULTS, invs, numberOfReceivedMessages,
                    reconnected, receivedMessages, wsInstance >>

\* ------------------------------------------------------------------------
\* REST invocation, by its outcome only: the request ends (the .then or the
\* .catch handler has run) and the promise is settled.  The runner and batch
\* specifications use this step; RestNetworkError and RestReply below give
\* the attempts and the handler in detail.
\* ------------------------------------------------------------------------
RestResponse(h, ok) ==
    /\ Quiescent
    /\ invs[h].req = "pending"
    /\ invs' = [invs EXCEPT ![h].req = None, ![h].attempts = 0,
                            ![h].promise = Settle(@, IF ok THEN "resolved" ELSE "rejected")]
    /\ UNCHANGED << codec, cache, derived, scenarios, orch, run, RESULTS, numberOfReceivedMessages,
                    reconnected, receivedMessages, wsInstance, diagram, exitStatus >>

\* ------------------------------------------------------------------------
\* REST invocation in detail: the attempts of requestretry and the handler
\* of the response (RestAction.invoke, the .then / .catch of request(...))
\* ------------------------------------------------------------------------
\* the retry strategy of requestretry when requestOptions names none
\* (HTTPOrNetworkError): a network error, or a response with a 5xx status
retryStrategy(err, status) == err \/ (status >= 500 /\ status < 600)

\* a status check that accepts every status
StatusExpectedAlways(d, status) == TRUE

\* expectedStatusCodes.includes(response.statusCode)
StatusExpected(d, status) == status \in expectedStatusCodes(d)

\* validateHeaders calls reject: some head. predicate is falsy or throws
\* (every predicate is evaluated, none stops the forEach)
validateHeaders(d, head) ==
    \E i \in 1..Len(responseValidation(d)) :
        /\ responseValidation(d)[i] \in HeadPredicates
        /\ Eval(responseValidation(d)[i], head) # "truthy"

\* validateBody throws: some res. predicate is falsy or throws (the first
\* such predicate ends the forEach)
validateBody(d, res) ==
    \E i \in 1..Len(responseValidation(d)) :
        /\ responseValidation(d)[i] \in ResPredicates
        /\ Eval(responseValidation(d)[i], res) # "truthy"

\* an updateScenarioCache that writes to the cache of every scenario
updateScenarioCacheShared(ch, s, d, res, head) ==
    IF variables(d).defined
    THEN [t \in DOMAIN ch |->
            [k \in CacheKeys |->
                IF k \in DOMAIN variables(d).rules
                THEN IF variables(d).rules[k] = "res" /\ res # None THEN res
                     ELSE IF variables(d).rules[k] = "head" /\ head # None THEN head
                     ELSE ch[t][k]
                ELSE ch[t][k]]]
    ELSE ch

\* updateScenarioCache({ res, head }): the caches after scenario.cache.set of
\* every rule that starts with res (res given) or with head (head given);
\* None is undefined
updateScenarioCache(ch, s, d, res, head) ==
    IF variables(d).defined
    THEN [ch EXCEPT ![s] =
            [k \in CacheKeys |->
                IF k \in DOMAIN variables(d).rules
                THEN IF variables(d).rules[k] = "res" /\ res # None THEN res
                     ELSE IF variables(d).rules[k] = "head" /\ head # None THEN head
                     ELSE ch[s][k]
                ELSE ch[s][k]]]
    ELSE ch

\* a call to the diagram recorder made for a REST response
RestDiagram(h, kinds) == {[kind |-> k, scen |-> invs[h].scen] : k \in kinds}

\* the request fails below HTTP (no response): requestretry makes the next
\* attempt after retryDelay, or gives up and the .catch handler rejects
RestNetworkError(h) ==
    /\ Quiescent
    /\ ActionType(invs[h].def) = "REST"
    /\ invs[h].req = "pending"
    /\ IF retryStrategy(TRUE, 0) /\ invs[h].attempts < maxAttempts
       THEN invs' = [invs EXCEPT ![h].attempts = @ + 1]
       ELSE invs' = [invs EXCEPT ![h].req = None, ![h].attempts = 0,
                                 ![h].promise = Settle(@, "rejected")]
    /\ UNCHANGED << codec, cache, derived, scenarios, orch, run, RESULTS, numberOfReceivedMessages,
                    reconnected, receivedMessages, wsInstance, diagram, exitStatus >>

\* a response arrives: requestretry makes the next attempt if its strategy
\* asks for one and attempts are left; otherwise the .then handler runs
RestReply(h, resp) ==
    /\ Quiescent
    /\ ActionType(invs[h].def) = "REST"
    /\ invs[h].req = "pending"
    /\ LET d == invs[h].def
           s == invs[h].scen
           p0 == invs[h].promise
           p1 == IF validateHeaders(d, resp.head) THEN Settle(p0, "rejected") ELSE p0
           c1 == updateScenarioCache(cache, s, d, None, resp.head)
           p2 == IF validateBody(d, resp.body) THEN Settle(p1, "rejected") ELSE p1
           c2 == updateScenarioCache(c1, s, d, resp.body, None)
           done(p, c, kinds) ==
               /\ invs' = [invs EXCEPT ![h].req = None, ![h].attempts = 0,
                                       ![h].promise = p]
               /\ cache' = c
               /\ diagram' = diagram \cup RestDiagram(h, {"request"} \cup kinds)
       IN IF retryStrategy(FALSE, resp.status) /\ invs[h].attempts < maxAttempts
          THEN /\ invs' = [invs EXCEPT ![h].attempts = @ + 1]
               /\ UNCHANGED << codec, cache, diagram >>
          ELSE IF ~StatusExpected(d, resp.status)
          THEN done(Settle(p0, "rejected"), cache, {"failedResponse"})
          ELSE IF resp.body = "null"
          THEN done(Settle(p1, "resolved"), c1, {"successfulResponse"})
          ELSE IF resp.body = "malformed"
          THEN \* JSON.parse throws: the .catch handler rejects
               done(Settle(p1, "rejected"), c1, {})
          ELSE done(Settle(p2, "resolved"), c2,
                    {"successfulResponseArrow",
                     IF validateBody(d, resp.body) THEN "validationFailureResponseBody"
                     ELSE "successfulResponseBody"})
    /\ UNCHANGED << codec, derived, scenarios, orch, run, RESULTS, numberOfReceivedMessages,
                    reconnected, receivedMessages, wsInstance, exitStatus >>

\* ------------------------------------------------------------------------
\* MQTT subscribe invocation (MqttAction.invokeAsync).  The client of the
\* mqtt library is "connecting", "connected", "offline" (closed, waiting to
\* reconnect: reconnectPeriod 1000), "ending" (client.end() called) or "ended".
\* ------------------------------------------------------------------------
IsMqtt(h) == ActionType(invs[h].def) = "MQTT" /\ invs[h].conn # None

\* addMissingMQTTMessage(scenario.name, this.topic, expected, received, reason)
Missing(h, why) ==
    [ kind |-> "missing", scen |-> invs[h].scen, def |-> invs[h].def, why |-> why,
      expected |-> expectedNumberOfMessages(invs[h].def),
      received |-> numberOfReceivedMessages[invs[h].def] ]

\* client.end()
ClientEnd(c) ==
    CASE c \in {"connecting", "connected"} -> "ending"
      [] c = "offline" -> "ended"
      [] OTHER -> c

\* client.on('connect'): subscribe to the topic, arm the listen timer
MqttConnect(h) ==
    /\ Quiescent
    /\ IsMqtt(h)
    /\ invs[h].conn = "connecting"
    /\ invs' = [invs EXCEPT ![h].conn = "connected",
                            ![h].subPending = @ + 1,
                            ![h].timers = @ + 1]
    /\ UNCHANGED << codec, cache, derived, scenarios, orch, run, RESULTS, numberOfReceivedMessages,
                    reconnected, receivedMessages, wsInstance, diagram, exitStatus >>

\* the callback of client.subscribe(topic, (error, granted) => ...)
MqttSubscribed(h, error) ==
    /\ Quiescent
    /\ IsMqtt(h)
    /\ invs[h].conn = "connected"
    /\ invs[h].subPending > 0
    /\ IF error
       THEN /\ diagram' = diagram \cup {Missing(h, "subscribe")}
            /\ invs' = [invs EXCEPT ![h].subPending = @ - 1,
                                    ![h].errorSeen = TRUE,
                                    ![h].promise = Settle(@, "rejected")]
       ELSE /\ diagram' = diagram
            /\ invs' = [invs EXCEPT ![h].subPending = @ - 1,
                                    ![h].subscribed = TRUE]
    /\ UNCHANGED << codec, cache, derived, scenarios, orch, run, RESULTS, numberOfReceivedMessages,
                    reconnected, receivedMessages, wsInstance, exitStatus >>

\* setTimeout(() => client.end(), this.durationInSec * 1000)
MqttTimer(h) ==
    /\ Quiescent
    /\ IsMqtt(h)
    /\ invs[h].timers > 0
    /\ invs' = [invs EXCEPT ![h].timers = @ - 1,
                            ![h].timerFired = TRUE,
                            ![h].conn = ClientEnd(@)]
    /\ UNCHANGED << codec, cache, derived, scenarios, orch, run, RESULTS, numberOfReceivedMessages,
                    reconnected, receivedMessages, wsInstance, diagram, exitStatus >>

\* a 'message' handler that counts every message
MqttMessageCountAll(h, msg) ==
    /\ Quiescent
    /\ IsMqtt(h)
    /\ invs[h].conn = "connected"
    /\ invs[h].subscribed
    /\ invs[h].delivered < MaxMsgs
    /\ numberOfReceivedMessages' =
           [numberOfReceivedMessages EXCEPT ![invs[h].def] = @ + 1]
    /\ invs' = [invs EXCEPT ![h].delivered = @ + 1, ![h].ownCount = @ + 1]
    /\ diagram' = diagram \cup {[kind |-> "mqtt", scen |-> invs[h].scen]}
    /\ UNCHANGED << codec, cache, derived, scenarios, orch, run, RESULTS, reconnected, receivedMessages,
                    wsInstance, exitStatus >>

\* client.on('message')
MqttMessage(h, msg) ==
    /\ Quiescent
    /\ IsMqtt(h)
    /\ invs[h].conn = "connected"
    /\ invs[h].subscribed
    /\ invs[h].delivered < MaxMsgs
    /\ LET d == invs[h].def
       IN IF msg \in Unparsable
          THEN \* the parser throws out of the handler: nothing catches it
               /\ numberOfReceivedMessages' = numberOfReceivedMessages
               /\ invs' = [invs EXCEPT ![h].delivered = @ + 1]
               /\ diagram' = diagram
               /\ exitStatus' = "uncaught"
          ELSE IF isMessageRelevant(d, msg)
          THEN /\ numberOfReceivedMessages' =
                      [numberOfReceivedMessages EXCEPT ![d] = @ + 1]
               /\ invs' = [invs EXCEPT ![h].delivered = @ + 1,
                                       ![h].ownCount = @ + 1]
               /\ diagram' = diagram \cup {[kind |-> "mqtt", scen |-> invs[h].scen]}
               /\ exitStatus' = exitStatus
          ELSE /\ numberOfReceivedMessages' = numberOfReceivedMessages
               /\ invs' = [invs EXCEPT ![h].delivered = @ + 1]
               /\ diagram' = diagram
               /\ exitStatus' = exitStatus
    /\ UNCHANGED << codec, cache, derived, scenarios, orch, run, RESULTS, reconnected, receivedMessages,
                    wsInstance >>

\* a close handler that accepts any count of at least the expected one
MqttCloseAtLeast(h) ==
    /\ Quiescent
    /\ IsMqtt(h)
    /\ \/ invs[h].conn = "ending"
       \/ invs[h].conn \in {"connecting", "connected"} /\ invs[h].drops < MaxDrops
    /\ LET d == invs[h].def
           ended == invs[h].conn = "ending"
           closed == [invs EXCEPT ![h].conn = IF ended THEN "ended" ELSE "offline",
                                  ![h].drops = IF ended THEN @ ELSE @ + 1]
       IN IF numberOfReceivedMessages[d] < expectedNumberOfMessages(d)
          THEN /\ diagram' = diagram \cup {Missing(h, "count")}
               /\ invs' = [closed EXCEPT ![h].promise = Settle(@, "rejected")]
          ELSE /\ diagram' = diagram
               /\ invs' = [closed EXCEPT ![h].promise = Settle(@, "resolved")]
    /\ UNCHANGED << codec, cache, derived, scenarios, orch, run, RESULTS, numberOfReceivedMessages,
                    reconnected, receivedMessages, wsInstance, exitStatus >>

\* client.on('close'): the library emits it when the connection ended by
\* client.end() is closed, and also when a connection or a connection
\* attempt is lost (the client then reconnects)
MqttClose(h) ==
    /\ Quiescent
    /\ IsMqtt(h)
    /\ \/ invs[h].conn = "ending"
       \/ invs[h].conn \in {"connecting", "connected"} /\ invs[h].drops < MaxDrops
    /\ LET d == invs[h].def
           ended == invs[h].conn = "ending"
           closed == [invs EXCEPT ![h].conn = IF ended THEN "ended" ELSE "offline",
                                  ![h].drops = IF ended THEN @ ELSE @ + 1]
       IN IF numberOfReceivedMessages[d] # expectedNumberOfMessages(d)
          THEN /\ diagram' = diagram \cup {Missing(h, "count")}
               /\ invs' = [closed EXCEPT ![h].promise = Settle(@, "rejected")]
          ELSE /\ diagram' = diagram
               /\ invs' = [closed EXCEPT ![h].promise = Settle(@, "resolved")]
    /\ UNCHANGED << codec, cache, derived, scenarios, orch, run, RESULTS, numberOfReceivedMessages,
                    reconnected, receivedMessages, wsInstance, exitStatus >>

\* client.on('reconnect')
MqttReconnect(h) ==
    /\ Quiescent
    /\ IsMqtt(h)
    /\ invs[h].conn = "offline"
    /\ invs' = [invs EXCEPT ![h].conn = "connecting"]
    /\ UNCHANGED << codec, cache, derived, scenarios, orch, run, RESULTS, numberOfReceivedMessages,
                    reconnected, receivedMessages, wsInstance, diagram, exitStatus >>

\* client.on('error')
MqttError(h) ==
    /\ Quiescent
    /\ IsMqtt(h)
    /\ invs[h].conn \in {"connecting", "connected"}
    /\ diagram' = diagram \cup {Missing(h, "error")}
    /\ invs' = [invs EXCEPT ![h].errorSeen = TRUE,
                            ![h].promise = Settle(@, "rejected")]
    /\ UNCHANGED << codec, cache, derived, scenarios, orch, run, RESULTS, numberOfReceivedMessages,
                    reconnected, receivedMessages, wsInstance, exitStatus >>

\* ------------------------------------------------------------------------
\* MQTT publish invocation (MqttPublishAction.invokeAsync).  The client is
\* the MQTT.js client of the subscribe action, with the same options
\* (reconnectPeriod 1000); the promise of invoke is settled before any of
\* its events.
\* ------------------------------------------------------------------------
IsPublish(h) == ActionType(invs[h].def) = "MQTT_PUBLISH" /\ invs[h].conn # None

\* client.on('connect'): encode the payload (th: the resolver or the
\* encoder throws, nothing catches it) and call client.publish
PubConnect(h, th) ==
    /\ Quiescent
    /\ IsPublish(h)
    /\ invs[h].conn = "connecting"
    /\ IF th
       THEN /\ invs' = [invs EXCEPT ![h].conn = "connected"]
            /\ exitStatus' = "uncaught"
       ELSE /\ invs' = [invs EXCEPT ![h].conn = "connected",
                                    ![h].publishes = @ + 1,
                                    ![h].pubPending = @ + 1]
            /\ exitStatus' = exitStatus
    /\ UNCHANGED << codec, cache, derived, scenarios, orch, run, RESULTS, numberOfReceivedMessages,
                    reconnected, receivedMessages, wsInstance, diagram >>

\* the callback of client.publish(topic, payload, (error, packet) => ...)
PubCallback(h, error) ==
    /\ Quiescent
    /\ IsPublish(h)
    /\ invs[h].pubPending > 0
    /\ IF error
       THEN /\ invs' = [invs EXCEPT ![h].pubPending = @ - 1,
                                    ![h].errorSeen = TRUE]
            /\ diagram' = diagram
       ELSE /\ invs[h].conn \in {"connected", "ending"}
            /\ invs' = [invs EXCEPT ![h].pubPending = @ - 1,
                                    ![h].conn = ClientEnd(@)]
            /\ diagram' = diagram \cup {[kind |-> "mqttPublish", scen |-> invs[h].scen]}
    /\ UNCHANGED << codec, cache, derived, scenarios, orch, run, RESULTS, numberOfReceivedMessages,
                    reconnected, receivedMessages, wsInstance, exitStatus >>

\* the connection closes (no 'close' handler is registered): after
\* client.end() for good, otherwise the client goes offline and reconnects
PubClose(h) ==
    /\ Quiescent
    /\ IsPublish(h)
    /\ \/ invs[h].conn = "ending"
       \/ invs[h].conn \in {"connecting", "connected"} /\ invs[h].drops < MaxDrops
    /\ invs' = IF invs[h].conn = "ending"
               THEN [invs EXCEPT ![h].conn = "ended"]
               ELSE [invs EXCEPT ![h].conn = "offline", ![h].drops = @ + 1]
    /\ UNCHANGED << codec, cache, derived, scenarios, orch, run, RESULTS, numberOfReceivedMessages,
                    reconnected, receivedMessages, wsInstance, diagram, exitStatus >>

\* the client's reconnect timer (reconnectPeriod: 1000)
PubReconnect(h) ==
    /\ Quiescent
    /\ IsPublish(h)
    /\ invs[h].conn = "offline"
    /\ invs' = [invs EXCEPT ![h].conn = "connecting"]
    /\ UNCHANGED << codec, cache, derived, scenarios, orch, run, RESULTS, numberOfReceivedMessages,
                    reconnected, receivedMessages, wsInstance, diagram, exitStatus >>

\* client.on('error'): logs
PubError(h) ==
    /\ Quiescent
    /\ IsPublish(h)
    /\ invs[h].conn \in {"connecting", "connected"}
    /\ ~invs[h].errorSeen
    /\ invs' = [invs EXCEPT ![h].errorSeen = TRUE]
    /\ UNCHANGED << codec, cache, derived, scenarios, orch, run, RESULTS, numberOfReceivedMessages,
                    reconnected, receivedMessages, wsInstance, diagram, exitStatus >>

\* ------------------------------------------------------------------------
\* WebSocket invocation (WebSocketAction.invokeAsync).  The socket of the
\* ws library is "connecting", "open", "closing" (close() called on an open
\* socket), "aborted" (close() called while connecting: the library emits
\* error, then close), "failed" (error emitted, close 1006 follows), "closed".
\* ------------------------------------------------------------------------
IsWs(h) == ActionType(invs[h].def) = "WEBSOCKET" /\ invs[h].sock # None

CloseCodes == {1000, 1006}

\* an 'open' handler that sends the payload on every open
WsOpenResend(h) ==
    /\ Quiescent
    /\ IsWs(h)
    /\ invs[h].sock = "connecting"
    /\ LET d == invs[h].def
           t == wsInstance[d]
           opened == [invs EXCEPT ![h].sock = "open"]
       IN IF data(d)
          THEN IF opened[t].sock = "connecting"
               THEN invs' = opened /\ exitStatus' = "uncaught"
               ELSE /\ invs' = IF opened[t].sock = "open"
                               THEN [opened EXCEPT ![t].sent = @ + 1]
                               ELSE opened
                    /\ exitStatus' = exitStatus
          ELSE invs' = opened /\ exitStatus' = exitStatus
    /\ UNCHANGED << codec, cache, derived, scenarios, orch, run, RESULTS, numberOfReceivedMessages,
                    reconnected, receivedMessages, wsInstance, diagram >>

\* wsInstance.on('open')
WsOpen(h) ==
    /\ Quiescent
    /\ IsWs(h)
    /\ invs[h].sock = "connecting"
    /\ LET d == invs[h].def
           t == wsInstance[d]
           opened == [invs EXCEPT ![h].sock = "open"]
       IN IF data(d) /\ reconnected[d] = 0
          THEN \* this.wsInstance.send(payload): the definition's latest socket
               IF opened[t].sock = "connecting"
               THEN invs' = opened /\ exitStatus' = "uncaught"
               ELSE /\ invs' = IF opened[t].sock = "open"
                               THEN [opened EXCEPT ![t].sent = @ + 1]
                               ELSE opened
                    /\ exitStatus' = exitStatus
          ELSE invs' = opened /\ exitStatus' = exitStatus
    /\ UNCHANGED << codec, cache, derived, scenarios, orch, run, RESULTS, numberOfReceivedMessages,
                    reconnected, receivedMessages, wsInstance, diagram >>

\* wsInstance.on('message')
WsMessage(h, msg) ==
    /\ Quiescent
    /\ IsWs(h)
    /\ invs[h].sock = "open"
    /\ invs[h].delivered < MaxMsgs
    /\ LET d == invs[h].def
       IN IF msg \in Unparsable
          THEN \* JSON.parse throws out of the handler: nothing catches it
               /\ receivedMessages' = receivedMessages
               /\ invs' = [invs EXCEPT ![h].delivered = @ + 1]
               /\ diagram' = diagram
               /\ exitStatus' = "uncaught"
          ELSE IF isMessageRelevant(d, msg)
          THEN /\ receivedMessages' = [receivedMessages EXCEPT ![d] = @ \cup {msg}]
               /\ invs' = [invs EXCEPT ![h].delivered = @ + 1,
                                       ![h].own = @ \cup {msg},
                                       ![h].ownCount = @ + 1]
               /\ diagram' = diagram \cup {[kind |-> "ws", scen |-> invs[h].scen]}
               /\ exitStatus' = exitStatus
          ELSE /\ receivedMessages' = receivedMessages
               /\ invs' = [invs EXCEPT ![h].delivered = @ + 1]
               /\ diagram' = diagram
               /\ exitStatus' = exitStatus
    /\ UNCHANGED << codec, cache, derived, scenarios, orch, run, RESULTS, numberOfReceivedMessages,
                    reconnected, wsInstance >>

\* a 'close' handler that accepts any count of at least the expected one
WsCloseAtLeast(h, closeCode) ==
    /\ Quiescent
    /\ IsWs(h)
    /\ \/ invs[h].sock \in {"open", "closing"}
       \/ invs[h].sock = "failed" /\ closeCode = 1006
    /\ LET d == invs[h].def
       IN IF closeCode = 1006 /\ reconnected[d] <= MAX_RECONNECTIONS
          THEN /\ reconnected' = [reconnected EXCEPT ![d] = @ + 1]
               /\ invs' = [invs EXCEPT ![h].sock = "connecting",
                                       ![h].sockets = @ + 1]
               /\ wsInstance' = [wsInstance EXCEPT ![d] = h]
          ELSE /\ reconnected' = reconnected
               /\ wsInstance' = wsInstance
               /\ invs' = [invs EXCEPT
                             ![h].sock = "closed",
                             ![h].promise =
                                 IF Cardinality(receivedMessages[d]) <
                                        expectedNumberOfMessages(d)
                                 THEN Settle(@, "rejected")
                                 ELSE Settle(@, "resolved")]
    /\ UNCHANGED << codec, cache, derived, scenarios, orch, run, RESULTS, numberOfReceivedMessages,
                    receivedMessages, diagram, exitStatus >>

\* wsInstance.on('close')
WsClose(h, closeCode) ==
    /\ Quiescent
    /\ IsWs(h)
    /\ \/ invs[h].sock \in {"open", "closing"}
       \/ invs[h].sock = "failed" /\ closeCode = 1006
    /\ LET d == invs[h].def
       IN IF closeCode = 1006 /\ reconnected[d] <= MAX_RECONNECTIONS
          THEN \* this.reconnected++; this.invokeAsync(scenario, resolve, reject)
               /\ reconnected' = [reconnected EXCEPT ![d] = @ + 1]
               /\ invs' = [invs EXCEPT ![h].sock = "connecting",
                                       ![h].sockets = @ + 1]
               /\ wsInstance' = [wsInstance EXCEPT ![d] = h]
          ELSE /\ reconnected' = reconnected
               /\ wsInstance' = wsInstance
               /\ invs' = [invs EXCEPT
                             ![h].sock = "closed",
                             ![h].promise =
                                 IF Cardinality(receivedMessages[d]) #
                                        expectedNumberOfMessages(d)
                                 THEN Settle(@, "rejected")
                                 ELSE Settle(@, "resolved")]
    /\ UNCHANGED << codec, cache, derived, scenarios, orch, run, RESULTS, numberOfReceivedMessages,
                    receivedMessages, diagram, exitStatus >>

\* wsInstance.on('error')
WsError(h) ==
    /\ Quiescent
    /\ IsWs(h)
    /\ invs[h].sock \in {"connecting", "open", "aborted"}
    /\ invs' = [invs EXCEPT ![h].sock = "failed",
                            ![h].errorSeen = TRUE,
                            ![h].promise = Settle(@, "rejected")]
    /\ UNCHANGED << codec, cache, derived, scenarios, orch, run, RESULTS, numberOfReceivedMessages,
                    reconnected, receivedMessages, wsInstance, diagram, exitStatus >>

\* ------------------------------------------------------------------------
\* fromTemplate of RestAction, WebSocketAction and MqttAction.  A scalar is a
\* record [field, v]: v is "undefined", "null", "falsy" (0, false, '') or a
\* truthy value, field names the field a truthy value was written for.  A map
\* is a record [is, at]: is "undefined", "null" or "object", at[k] the value
\* of key k (None: no such key).
\* ------------------------------------------------------------------------
Undefined == [field |-> "", v |-> "undefined"]

Val(f, x) ==
    IF x \in {"undefined", "null", "falsy"} THEN [field |-> "", v |-> x]
    ELSE [field |-> f, v |-> x]

\* a || b
Or(a, b) == IF a.v \notin {"undefined", "null", "falsy"} THEN a ELSE b

\* a ?? b
Nullish(a, b) == IF a.v \in {"undefined", "null"} THEN b ELSE a

\* a parameter with a default value: the default replaces undefined only
Default(arg, dflt) == IF arg.v = "undefined" THEN dflt ELSE arg

MergeKeys == {"a", "b"}

UndefinedMap == [is |-> "undefined", at |-> [k \in MergeKeys |-> None]]

NullMap == [is |-> "null", at |-> [k \in MergeKeys |-> None]]

EmptyMap == [is |-> "object", at |-> [k \in MergeKeys |-> None]]

\* { ...a, ...b } and Object.assign(Object.assign({}, a), b)
Spread(a, b) ==
    [is |-> "object",
     at |-> [k \in MergeKeys |->
                IF b.is = "object" /\ b.at[k] # None THEN b.at[k]
                ELSE IF a.is = "object" THEN a.at[k]
                ELSE None]]

DefaultMap(arg, dflt) == IF arg.is = "undefined" THEN dflt ELSE arg

\* the values a scalar field has in a template and in an override
TemplateVals == {"undefined", "falsy", "t1"}

OverrideVals == {"undefined", "falsy", "o1"}

\* the maps an associative field has in a template and in an override
TemplateMaps ==
    {UndefinedMap} \cup {[is |-> "object", at |-> f] : f \in [MergeKeys -> {None, "t"}]}

OverrideMaps ==
    {UndefinedMap} \cup {[is |-> "object", at |-> f] : f \in [MergeKeys -> {None, "o"}]}

\* a list value is a record [is |-> "list", items]; UndefinedList is a field
\* that is not there
List(items) == [is |-> "list", items |-> items]

UndefinedList == [is |-> "undefined", items |-> << >>]

\* the lists a template and an override hold in a list field
TemplateLists == {List(<< >>), List(<< "t1" >>), List(<< "t1", "t2" >>)}

OverrideLists == {List(<< >>), List(<< "o1" >>), List(<< "o2", "o1" >>)}

\* the data a template and an override hold next to the map tm / om of
\* their other fields: that map or a list
TemplateData(tm) == {tm} \cup TemplateLists

OverrideData(om) == {om} \cup OverrideLists

\* a list that takes the override's elements in place of the template's
ConcatReplace(a, b) ==
    IF b.is = "list" /\ Len(b.items) > 0 THEN List(b.items)
    ELSE IF b.is = "object" THEN List(<< "definition.data" >>)
    ELSE List(a.items)

\* a.concat(b || []): a new list, the elements of a and then those of b; a
\* value b that is no list is appended as one element
Concat(a, b) ==
    IF b.is = "list" THEN List(a.items \o b.items)
    ELSE IF b.is = "object" THEN List(Append(a.items, "definition.data"))
    ELSE List(a.items)

\* [...validators]
CopyList(a) == IF a.is = "list" THEN List(a.items) ELSE a

\* { ...a, ...b } for the data: the keys of a map b, or the indices of a
\* list b, over the keys of a
SpreadData(a, b) ==
    [is |-> "object",
     at |-> [k \in MergeKeys |->
                IF b.is = "object" /\ b.at[k] # None THEN b.at[k] ELSE a.at[k]],
     idx |-> IF b.is = "list" THEN b.items ELSE << >>]

\* RestAction.loadData and WebSocketAction.loadData
loadData(template, actionDef) ==
    IF template.data.is \in {"object", "list"}
    THEN IF template.data.is = "list"
         THEN Concat(template.data, actionDef.data)
         ELSE SpreadData(template.data, actionDef.data)
    ELSE actionDef.data

\* a RestAction built by the constructor (queryParameters ?? {},
\* expectedStatusCodes ?? [200, 201, 204]); its url and its method are
\* always defined (url: string, RestActionDefinition.method: string)
RestTemplate(tm, tv) ==
    [url |-> Val("url", IF tv = "undefined" THEN "t1" ELSE tv),
     method |-> Val("method", IF tv = "undefined" THEN "t1" ELSE tv),
     queryParameters |-> IF tm.is = "undefined" THEN EmptyMap ELSE tm,
     restHead |-> tm, data |-> tm, form |-> tm, variables |-> tm,
     expectedStatusCodes |->
         Nullish(Val("expectedStatusCodes", tv), Val("expectedStatusCodes", "default"))]

\* the definition of a REST action that overrides a template
RestDefinition(om, ov) ==
    [url |-> Val("url", ov), method |-> Val("method", ov),
     queryParameters |-> om, headers |-> om, restHead |-> UndefinedMap,
     data |-> om, form |-> om, variables |-> om,
     expectedStatusCodes |-> Val("expectedStatusCodes", ov)]

\* RestAction.fromTemplate(actionDef, template): the arguments it passes,
\* through the defaults of the constructor's parameters
RestFromTemplate(actionDef, template) ==
    [url |-> template.url,
     method |-> Default(Nullish(actionDef.method, template.method), actionDef.method),
     queryParameters |->
         DefaultMap(Spread(template.queryParameters, actionDef.queryParameters),
                    IF actionDef.queryParameters.is = "object"
                    THEN actionDef.queryParameters ELSE EmptyMap),
     restHead |->
         DefaultMap(IF template.restHead.is = "object"
                    THEN Spread(template.restHead, actionDef.headers)
                    ELSE actionDef.restHead,
                    actionDef.headers),
     data |-> DefaultMap(loadData(template, actionDef), actionDef.data),
     form |->
         DefaultMap(IF template.form.is = "object"
                    THEN Spread(template.form, actionDef.form)
                    ELSE NullMap,
                    actionDef.form),
     responseValidation |->
         CopyList(DefaultMap(IF template.responseValidation.is = "list"
                             THEN Concat(template.responseValidation,
                                         actionDef.responseValidation)
                             ELSE actionDef.responseValidation,
                             Concat(List(<< >>), actionDef.responseValidation))),
     variables |->
         DefaultMap(Spread(template.variables, actionDef.variables), actionDef.variables),
     expectedStatusCodes |->
         Default(Nullish(actionDef.expectedStatusCodes, template.expectedStatusCodes),
                 Nullish(actionDef.expectedStatusCodes,
                         Val("expectedStatusCodes", "default")))]

\* a WebSocketAction built by the constructor from a definition
WsTemplate(tm, tv) ==
    [url |-> Val("url", tv), headers |-> tm, data |-> tm,
     expectedNumberOfMessages |-> Val("expectedNumberOfMessages", tv),
     messageFilter |-> Val("messageFilter", tv),
     invokeEvenOnFail |-> Val("invokeEvenOnFail", tv),
     allowFailure |-> Val("allowFailure", tv)]

\* the definition of a WebSocket action that overrides a template
WsDefinition(om, ov) ==
    [url |-> Val("url", ov), headers |-> om, restHead |-> UndefinedMap, data |-> om,
     expectedNumberOfMessages |-> Val("expectedNumberOfMessages", ov),
     messageFilter |-> Val("messageFilter", ov),
     invokeEvenOnFail |-> Val("invokeEvenOnFail", ov),
     allowFailure |-> Val("allowFailure", ov)]

\* WebSocketAction.fromTemplate(wsDefinition, template): ten arguments for
\* the constructor's eleven parameters (name, desc, wsDefinition,
\* serviceName, url, headers, data, expectedNumberOfMessages, messageFilter,
\* invokeEvenOnFail, allowFailure), through the parameters' defaults
WebSocketFromTemplate(wsDefinition, template) ==
    [url |-> Default(template.url, wsDefinition.url),
     headers |->
         DefaultMap(IF template.headers.is = "object"
                    THEN Spread(template.headers, wsDefinition.headers)
                    ELSE wsDefinition.restHead,
                    wsDefinition.headers),
     data |-> DefaultMap(loadData(template, wsDefinition), wsDefinition.data),
     expectedNumberOfMessages |->
         Default(Or(wsDefinition.expectedNumberOfMessages,
                    template.expectedNumberOfMessages),
                 wsDefinition.expectedNumberOfMessages),
     messageFilter |->
         Default(Or(wsDefinition.invokeEvenOnFail, template.invokeEvenOnFail),
                 wsDefinition.messageFilter),
     invokeEvenOnFail |->
         Default(Or(wsDefinition.allowFailure, template.allowFailure),
                 wsDefinition.invokeEvenOnFail),
     allowFailure |-> Default(Undefined, wsDefinition.allowFailure)]

\* an MqttAction built by the constructor from a definition
MqttTemplate(tv) ==
    [url |-> Val("url", tv), topic |-> Val("topic", tv),
     username |-> Val("username", tv), messageFilter |-> Val("messageFilter", tv)]

\* the definition of an MQTT action that overrides a template
MqttDefinition(ov) ==
    [url |-> Val("url", ov), topic |-> Val("topic", ov),
     username |-> Val("username", ov), messageFilter |-> Val("messageFilter", ov)]

\* MqttAction.fromTemplate: new MqttAction(name, desc, { ...template,
\* ...mqttListenDefinition }), every field from the constructor's defaults
MqttFromTemplate(mqttListenDefinition, template) ==
    LET actionDef == [f \in DOMAIN template |->
                         IF mqttListenDefinition[f].v # "undefined"
                         THEN mqttListenDefinition[f] ELSE template[f]]
    IN [url |-> Default(Undefined, actionDef.url),
        topic |-> Default(Undefined, actionDef.topic),
        username |-> Default(Undefined, actionDef.username)]

\* an MqttPublishAction built by the constructor from a definition
MqttPublishTemplate(tm, tv) ==
    [url |-> Val("url", tv), topic |-> Val("topic", tv),
     username |-> Val("username", tv), data |-> tm]

\* the definition of an MQTT publish action that overrides a template
MqttPublishDefinition(om, ov) ==
    [url |-> Val("url", ov), topic |-> Val("topic", ov),
     username |-> Val("username", ov), data |-> om]

\* MqttPublishAction.fromTemplate: new MqttPublishAction(template.name,
\* Object.assign(Object.assign({}, template), mqttDefinition)), every field
\* from the constructor's defaults; data is taken whole
MqttPublishFromTemplate(mqttDefinition, template) ==
    LET actionDef == [f \in {"url", "topic", "username"} |->
                         IF mqttDefinition[f].v # "undefined"
                         THEN mqttDefinition[f] ELSE template[f]]
    IN [url |-> Default(Undefined, actionDef.url),
        topic |-> Default(Undefined, actionDef.topic),
        username |-> Default(Undefined, actionDef.username),
        data |-> DefaultMap(UndefinedMap,
                            IF mqttDefinition.data.is # "undefined"
                            THEN mqttDefinition.data ELSE template.data)]

\* Object.assign(a, b): the merge fills its first argument
MergeTargetInPlace(a) == IF a.is = "object" THEN "template" ELSE "fresh"

\* the object that { ...a, ...b } and Object.assign(Object.assign({}, a), b)
\* fill and return: a new one
MergeTarget(a) == "fresh"

\* the object a parameter holds that is taken whole from the definition
FromDefinition(m) == IF m.is \in {"object", "list"} THEN "definition" ELSE "none"

\* the object a ?? b or a || b yields for two whole values
WholeOwner(a, b) ==
    IF a.v \notin {"undefined", "null", "falsy"} THEN "definition"
    ELSE IF b.v \notin {"undefined", "null", "falsy"} THEN "template"
    ELSE "none"

\* the objects the fields of the action RestAction.fromTemplate returns
\* hold: a new object, an object of the template, an object of the
\* definition, or no object
RestOwner(actionDef, template) ==
    [queryParameters |-> MergeTarget(template.queryParameters),
     restHead |-> IF template.restHead.is = "object"
                  THEN MergeTarget(template.restHead)
                  ELSE FromDefinition(actionDef.headers),
     data |-> IF template.data.is = "list" THEN "fresh"
              ELSE IF template.data.is = "object" THEN MergeTarget(template.data)
              ELSE FromDefinition(actionDef.data),
     form |-> IF template.form.is = "object"
              THEN MergeTarget(template.form) ELSE "none",
     responseValidation |-> "fresh",
     variables |-> MergeTarget(template.variables),
     expectedStatusCodes |->
         WholeOwner(actionDef.expectedStatusCodes, template.expectedStatusCodes)]

\* the objects the fields of the action WebSocketAction.fromTemplate
\* returns hold
WsOwner(wsDefinition, template) ==
    [headers |-> IF template.headers.is = "object"
                 THEN MergeTarget(template.headers)
                 ELSE FromDefinition(wsDefinition.headers),
     data |-> IF template.data.is = "list" THEN "fresh"
              ELSE IF template.data.is = "object" THEN MergeTarget(template.data)
              ELSE FromDefinition(wsDefinition.data)]

\* MqttAction.fromTemplate copies the fields of the template and of the
\* definition one by one: a list is the list of the object it comes from
MqttOwner(mqttListenDefinition, template) ==
    [messageFilter |->
         WholeOwner(mqttListenDefinition.messageFilter, template.messageFilter)]

\* MqttPublishAction.fromTemplate copies the fields likewise
MqttPublishOwner(mqttDefinition, template) ==
    [data |-> IF mqttDefinition.data.is = "object" THEN "definition"
              ELSE IF template.data.is = "object" THEN "template"
              ELSE "none"]

\* the fields fromTemplate merges, per variant
MergedFields(kind) ==
    CASE kind = "REST" -> {"queryParameters", "restHead", "data", "form",
                           "responseValidation", "variables"}
      [] kind = "WEBSOCKET" -> {"headers", "data"}
      [] OTHER -> {}

TemplateKinds == {"REST", "WEBSOCKET", "MQTT", "MQTT_PUBLISH"}

\* the template and the override of a call of fromTemplate
TemplateOf(c) ==
    CASE c.kind = "REST" ->
             [responseValidation |-> c.tr]
                 @@ [RestTemplate(c.tm, c.tv) EXCEPT !.data = c.td]
      [] c.kind = "WEBSOCKET" -> [WsTemplate(c.tm, c.tv) EXCEPT !.data = c.td]
      [] c.kind = "MQTT" -> MqttTemplate(c.tv)
      [] c.kind = "MQTT_PUBLISH" -> MqttPublishTemplate(c.tm, c.tv)

DefinitionOf(c) ==
    CASE c.kind = "REST" ->
             [responseValidation |-> c.orv]
                 @@ [RestDefinition(c.om, c.ov) EXCEPT !.data = c.od]
      [] c.kind = "WEBSOCKET" -> [WsDefinition(c.om, c.ov) EXCEPT !.data = c.od]
      [] c.kind = "MQTT" -> MqttDefinition(c.ov)
      [] c.kind = "MQTT_PUBLISH" -> MqttPublishDefinition(c.om, c.ov)

\* the object each field of the derived action holds
OwnerOf(c) ==
    CASE c.kind = "REST" -> RestOwner(DefinitionOf(c), TemplateOf(c))
      [] c.kind = "WEBSOCKET" -> WsOwner(DefinitionOf(c), TemplateOf(c))
      [] c.kind = "MQTT" -> MqttOwner(DefinitionOf(c), TemplateOf(c))
      [] c.kind = "MQTT_PUBLISH" -> MqttPublishOwner(DefinitionOf(c), TemplateOf(c))

\* the loader derives an action from a template and an override
FromTemplate ==
    /\ derived.pc = "args"
    /\ derived' =
          [pc |-> "done", kind |-> derived.kind,
           tm |-> derived.tm, om |-> derived.om, tv |-> derived.tv, ov |-> derived.ov,
           td |-> derived.td, od |-> derived.od, tr |-> derived.tr, orv |-> derived.orv,
           action |->
               CASE derived.kind = "REST" ->
                        RestFromTemplate(DefinitionOf(derived), TemplateOf(derived))
                 [] derived.kind = "WEBSOCKET" ->
                        WebSocketFromTemplate(DefinitionOf(derived), TemplateOf(derived))
                 [] derived.kind = "MQTT" ->
                        MqttFromTemplate(DefinitionOf(derived), TemplateOf(derived))
                 [] derived.kind = "MQTT_PUBLISH" ->
                        MqttPublishFromTemplate(DefinitionOf(derived),
                                                TemplateOf(derived)),
           owner |-> OwnerOf(derived),
           touched |-> {f \in MergedFields(derived.kind) :
                           /\ OwnerOf(derived)[f] = "template"
                           /\ \E k \in MergeKeys : derived.om.at[k] # None},
           wrote |-> None]
    /\ UNCHANGED << codec, cache, scenarios, orch, run, RESULTS, invs, numberOfReceivedMessages,
                    reconnected, receivedMessages, wsInstance, diagram, exitStatus >>

\* a later change of an entry of a map or a list the derived action holds:
\* it changes the object the field holds, whichever actions hold it
DerivedWrite(f) ==
    /\ derived.pc = "done"
    /\ f \in DOMAIN derived.owner
    /\ derived.owner[f] # "none"
    /\ derived' = [derived EXCEPT
                      !.pc = "written", !.wrote = f,
                      !.touched = @ \cup (IF derived.owner[f] = "template"
                                          THEN {f} ELSE {})]
    /\ UNCHANGED << codec, cache, scenarios, orch, run, RESULTS, invs, numberOfReceivedMessages,
                    reconnected, receivedMessages, wsInstance, diagram, exitStatus >>

\* ------------------------------------------------------------------------
\* The proto codec (protoParsing.ts)
\* A string is the sequence of its bytes.  The value of a field of an object
\* is a record [kind, v]: kind "absent", "string" (v its bytes) or "number"
\* (v = << n >>); a nested message is [kind, nestedText] with kind "absent",
\* "message" or "string" (a string where a message is expected).
\* Message classes: Test of src/tests/resources/proto/test.proto
\* (nested = 1 { nestedText = 1 }, text = 2, as the bytes of
\* protoParsing.spec.ts show) and Reading { float value = 1 }.
\* ------------------------------------------------------------------------
Absent == [kind |-> "absent", v |-> << >>]

Str(bytes) == [kind |-> "string", v |-> bytes]

Num(n) == [kind |-> "number", v |-> << n >>]

hello == << 104, 101, 108, 108, 111 >>

world == << 119, 111, 114, 108, 100 >>

\* the strings of the bounded objects
Strings == {<< >>, << 97 >>, hello, world}

\* the numbers of the bounded objects: non-negative integers
Numbers == {0, 1, 3, 16777216, 16777217, 16777219}

\* the values a field of an object handed to encodeProto holds
TextValues == {Absent, Num(1)} \cup {Str(b) : b \in Strings}

NestedValues ==
    {[kind |-> "absent", nestedText |-> Absent],
     [kind |-> "string", nestedText |-> Absent]}
        \cup {[kind |-> "message", nestedText |-> t] : t \in TextValues}

FloatValues == {Absent, Str(<< 97 >>)} \cup {Num(n) : n \in Numbers}

\* the objects handed to encodeProto, per message class
ProtoObjects ==
    {[class |-> "Test", nested |-> n, text |-> t] :
         n \in NestedValues, t \in TextValues}
        \cup {[class |-> "Reading", value |-> x] : x \in FloatValues}

Pow2(n) == 2 ^ n

RECURSIVE Log2(_)
\* the exponent of the leading bit of n >= 1
Log2(n) == IF n < 2 THEN 0 ELSE 1 + Log2(n \div 2)

\* v / d rounded to the nearest integer, ties to the even one
RoundEven(v, d) ==
    LET q == v \div d
        r == v % d
    IN IF 2 * r < d THEN q
       ELSE IF 2 * r > d THEN q + 1
       ELSE IF q % 2 = 0 THEN q ELSE q + 1

\* the 32 bits writer.float(n) writes for an integer n >= 0 (IEEE 754
\* binary32: 8 bits of exponent, 23 of mantissa, nearest-even rounding)
FloatBits(n) ==
    IF n = 0 THEN 0
    ELSE LET e == Log2(n)
             m == IF e <= 23 THEN n * Pow2(23 - e) ELSE RoundEven(n, Pow2(e - 23))
             e2 == IF m = Pow2(24) THEN e + 1 ELSE e
             m2 == IF m = Pow2(24) THEN Pow2(23) ELSE m
         IN (e2 + 127) * Pow2(23) + (m2 - Pow2(23))

\* the four bytes of a 32-bit word, the lowest first
LittleEndian(w) ==
    << w % 256, (w \div 256) % 256, (w \div 65536) % 256, w \div 16777216 >>

FromLittleEndian(b) == b[1] + 256 * b[2] + 65536 * b[3] + 16777216 * b[4]

\* the number reader.float() reads from 32 bits (of an integer value)
FloatOfBits(w) ==
    IF w = 0 THEN 0
    ELSE LET e == (w \div Pow2(23)) - 127
             m == (w % Pow2(23)) + Pow2(23)
         IN IF e >= 23 THEN m * Pow2(e - 23) ELSE m \div Pow2(23 - e)

\* messageType.verify(attributes): "" when the object is valid, otherwise
\* the message of the first field that is not
Verify(o) ==
    IF o.class = "Test"
    THEN IF o.nested.kind = "string" THEN "nested: object expected"
         ELSE IF o.nested.kind = "message"
                     /\ o.nested.nestedText.kind \notin {"absent", "string"}
              THEN "nested.nestedText: string expected"
         ELSE IF o.text.kind \notin {"absent", "string"} THEN "text: string expected"
         ELSE ""
    ELSE IF o.value.kind \notin {"absent", "number"} THEN "value: number expected"
         ELSE ""

\* a length-delimited field: tag (field number, wire type 2), length, bytes
LengthDelimited(fieldNo, bytes) == << fieldNo * 8 + 2, Len(bytes) >> \o bytes

\* messageType.encode(messageType.fromObject(o)).finish(): the fields that
\* are there, in the order of their numbers
Encode(o) ==
    IF o.class = "Test"
    THEN (IF o.nested.kind = "message"
          THEN LengthDelimited(1, IF o.nested.nestedText.kind = "string"
                                  THEN LengthDelimited(1, o.nested.nestedText.v)
                                  ELSE << >>)
          ELSE << >>)
         \o (IF o.text.kind = "string" THEN LengthDelimited(2, o.text.v) ELSE << >>)
    ELSE IF o.value.kind = "number"
         THEN << 1 * 8 + 5 >> \o LittleEndian(FloatBits(o.value.v[1]))
         ELSE << >>

\* the bytes after the first field of a message
Rest(bytes) ==
    IF bytes[1] % 8 = 2 THEN SubSeq(bytes, 3 + bytes[2], Len(bytes))
    ELSE SubSeq(bytes, 6, Len(bytes))

\* the payload of the first field of a message
Payload(bytes) ==
    IF bytes[1] % 8 = 2 THEN SubSeq(bytes, 3, 2 + bytes[2])
    ELSE SubSeq(bytes, 2, 5)

RECURSIVE FieldOf(_, _)
\* the payload of the last field with the number fieldNo, or << -1 >> when
\* the message has none
FieldOf(bytes, fieldNo) ==
    IF bytes = << >> THEN << -1 >>
    ELSE LET later == FieldOf(Rest(bytes), fieldNo)
         IN IF later # << -1 >> THEN later
            ELSE IF bytes[1] \div 8 = fieldNo THEN Payload(bytes)
            ELSE << -1 >>

\* messageType.toObject(messageType.decode(buffer))
Decode(class, bytes) ==
    LET string(p) == IF p = << -1 >> THEN Absent ELSE Str(p)
    IN IF class = "Test"
       THEN [class |-> "Test",
             nested |-> IF FieldOf(bytes, 1) = << -1 >>
                        THEN [kind |-> "absent", nestedText |-> Absent]
                        ELSE [kind |-> "message",
                              nestedText |-> string(FieldOf(FieldOf(bytes, 1), 1))],
             text |-> string(FieldOf(bytes, 2))]
       ELSE [class |-> "Reading",
             value |-> IF FieldOf(bytes, 1) = << -1 >> THEN Absent
                       ELSE Num(FloatOfBits(FromLittleEndian(FieldOf(bytes, 1))))]

\* encodeProto(protoDefPath, attributes, outerClass)
EncodeProto ==
    /\ codec.pc = "args"
    /\ codec' = IF Verify(codec.object) # ""
                THEN [codec EXCEPT !.pc = "encodeError", !.error = Verify(codec.object)]
                ELSE [codec EXCEPT !.pc = "encoded", !.bytes = Encode(codec.object)]
    /\ UNCHANGED << scenarios, orch, run, RESULTS, invs, numberOfReceivedMessages,
                    reconnected, receivedMessages, wsInstance, diagram, exitStatus,
                    cache, derived >>

\* decodeProto(protoDefPath, outerClass, buffer) on the bytes encodeProto
\* returned
DecodeProto ==
    /\ codec.pc = "encoded"
    /\ LET messageObject == Decode(codec.object.class, codec.bytes)
       IN codec' = IF Verify(messageObject) # ""
                   THEN [codec EXCEPT !.pc = "decodeError",
                                      !.error = Verify(messageObject)]
                   ELSE [codec EXCEPT !.pc = "decoded", !.result = messageObject]
    /\ UNCHANGED << scenarios, orch, run, RESULTS, invs, numberOfReceivedMessages,
                    reconnected, receivedMessages, wsInstance, diagram, exitStatus,
                    cache, derived >>

\* ------------------------------------------------------------------------
\* Initial states and specifications
\* ------------------------------------------------------------------------
InitWith(layout) ==
    /\ scenarios = layout
    /\ orch = [pc |-> "map", i |-> 1, mapIdx |-> 1, printed |-> FALSE, anyError |-> FALSE]
    /\ run = [s \in 1..Len(layout) |->
                 [pc |-> "notStarted", idx |-> 0, successful |-> TRUE, cur |-> 0,
                  ASYNC_ACTIONS |-> << >>]]
    /\ RESULTS = << >>
    /\ invs = << >>
    /\ numberOfReceivedMessages = [d \in Defs |-> 0]
    /\ reconnected = [d \in Defs |-> 0]
    /\ receivedMessages = [d \in Defs |-> {}]
    /\ wsInstance = [d \in Defs |-> 0]
    /\ diagram = {}
    /\ exitStatus = "running"
    /\ cache = [s \in 1..Len(layout) |-> NewCache]
    /\ derived = [pc |-> "none"]
    /\ codec = [pc |-> "none"]

\* the scenario collections of the batch specification: NumScenarios
\* scenarios of one REST action each
BatchLayouts == { [s \in 1..NumScenarios |-> << "r1" >>] }

InitBatch == \E layout \in BatchLayouts : InitWith(layout)

NextBatch ==
    \/ \E th \in ResolverThrows : StartScenario(th)
    \/ \E s \in Scen, th \in ResolverThrows : RunnerResume(s, th)
    \/ BatchJoin
    \/ DiagramsDone
    \/ \E h \in Handles, ok \in BOOLEAN : RestResponse(h, ok)

SpecBatch == InitBatch /\ [][NextBatch]_vars

\* the scenario collections of the runner specification: every action of a
\* scenario is an action object of its own
Layouts ==
    { << << "w1", "r1" >> >>,
      << << "m1", "r1" >> >>,
      << << "r1", "p1" >>, << "r1", "m1" >> >>,
      << << "w1", "p1" >>, << "r1" >> >>,
      << << "w1", "w2" >> >>,
      << << "r1", "w2", "p1" >>, << >> >> }

Init == \E layout \in Layouts : InitWith(layout)

Next ==
    \/ \E th \in ResolverThrows : StartScenario(th)
    \/ \E s \in Scen, th \in ResolverThrows : RunnerResume(s, th)
    \/ BatchJoin
    \/ BatchReject
    \/ DiagramsDone
    \/ \E h \in Handles, ok \in BOOLEAN : RestResponse(h, ok)
    \/ \E h \in Handles : MqttConnect(h)
    \/ \E h \in Handles, error \in BOOLEAN : MqttSubscribed(h, error)
    \/ \E h \in Handles : MqttTimer(h)
    \/ \E h \in Handles, msg \in Messages : MqttMessage(h, msg)
    \/ \E h \in Handles : MqttClose(h)
    \/ \E h \in Handles : MqttReconnect(h)
    \/ \E h \in Handles : MqttError(h)
    \/ \E h \in Handles : WsOpen(h)
    \/ \E h \in Handles, msg \in Messages : WsMessage(h, msg)
    \/ \E h \in Handles, closeCode \in CloseCodes : WsClose(h, closeCode)
    \/ \E h \in Handles : WsError(h)

Spec == Init /\ [][Next]_vars

\* the scenario collections of the liveness specification
LiveLayouts ==
    { << << "w1", "r1" >> >>,
      << << "m1", "r1" >> >>,
      << << "r1" >>, << "m1" >> >> }

InitLive == \E layout \in LiveLayouts : InitWith(layout)

\* the steps the program itself schedules: promise continuations, the
\* timers it arms (listen timer, reconnect timer of the MQTT client) and the
\* events its own calls bring about (the close after client.end() or
\* close(), the error and the close of an aborted socket); whether a peer
\* accepts a connection, answers, sends or closes is not among them
Scheduled ==
    \/ \E th \in ResolverThrows : StartScenario(th)
    \/ \E s \in Scen, th \in ResolverThrows : RunnerResume(s, th)
    \/ BatchJoin
    \/ BatchReject
    \/ DiagramsDone
    \/ \E h \in Handles : MqttTimer(h)
    \/ \E h \in Handles : MqttReconnect(h)
    \/ \E h \in Handles : invs[h].conn = "ending" /\ MqttClose(h)
    \/ \E h \in Handles : invs[h].sock = "aborted" /\ WsError(h)
    \/ \E h \in Handles, closeCode \in CloseCodes :
          invs[h].sock \in {"closing", "failed"} /\ WsClose(h, closeCode)

SpecLive == InitLive /\ [][Next]_vars /\ WF_vars(Scheduled)

\* the scenario collections of the REST specification
RestLayouts ==
    { << << "r2", "r3" >> >>,
      << << "r3", "r2" >> >>,
      << << "r2", "r3" >>, << "r3" >> >>,
      << << "r1", "r2" >> >> }

InitRest == \E layout \in RestLayouts : InitWith(layout)

NextRest ==
    \/ \E th \in ResolverThrows : StartScenario(th)
    \/ \E s \in Scen, th \in ResolverThrows : RunnerResume(s, th)
    \/ BatchJoin
    \/ DiagramsDone
    \/ \E h \in Handles : RestNetworkError(h)
    \/ \E h \in Handles, resp \in Responses : RestReply(h, resp)

SpecRest == InitRest /\ [][NextRest]_vars

\* the scenario collections of the filter specification: one listening
\* action with an empty filter list or without one
FilterLayouts ==
    { << << "m2" >> >>, << << "m3" >> >>, << << "w3" >> >>, << << "w4" >> >> }

InitFilter == \E layout \in FilterLayouts : InitWith(layout)

NextFilter ==
    \/ \E th \in ResolverThrows : StartScenario(th)
    \/ \E s \in Scen, th \in ResolverThrows : RunnerResume(s, th)
    \/ BatchJoin
    \/ BatchReject
    \/ DiagramsDone
    \/ \E h \in Handles : MqttConnect(h)
    \/ \E h \in Handles, error \in BOOLEAN : MqttSubscribed(h, error)
    \/ \E h \in Handles : MqttTimer(h)
    \/ \E h \in Handles, msg \in Messages \cup Unparsable : MqttMessage(h, msg)
    \/ \E h \in Handles : MqttClose(h)
    \/ \E h \in Handles : MqttReconnect(h)
    \/ \E h \in Handles : MqttError(h)
    \/ \E h \in Handles : WsOpen(h)
    \/ \E h \in Handles, msg \in Messages \cup Unparsable : WsMessage(h, msg)
    \/ \E h \in Handles, closeCode \in CloseCodes : WsClose(h, closeCode)
    \/ \E h \in Handles : WsError(h)

SpecFilter == InitFilter /\ [][NextFilter]_vars

\* the scenario collections of the publish specification
PublishLayouts ==
    { << << "p1", "r1" >> >>,
      << << "r1", "p1" >> >>,
      << << "p1" >>, << "p1", "r1" >> >> }

InitPublish == \E layout \in PublishLayouts : InitWith(layout)

NextPublish ==
    \/ \E th \in ResolverThrows : StartScenario(th)
    \/ \E s \in Scen, th \in ResolverThrows : RunnerResume(s, th)
    \/ BatchJoin
    \/ DiagramsDone
    \/ \E h \in Handles, ok \in BOOLEAN : RestResponse(h, ok)
    \/ \E h \in Handles, th \in ResolverThrows : PubConnect(h, th)
    \/ \E h \in Handles, error \in BOOLEAN : PubCallback(h, error)
    \/ \E h \in Handles : PubClose(h)
    \/ \E h \in Handles : PubReconnect(h)
    \/ \E h \in Handles : PubError(h)

SpecPublish == InitPublish /\ [][NextPublish]_vars

\* the publish specification with an event loop that runs every continuation
\* and delivers every event that is due
SpecPublishLive == InitPublish /\ [][NextPublish]_vars /\ WF_vars(NextPublish)

\* the template specification: fromTemplate applied to every template and
\* override of the bounded sets, no scenario running
InitTemplate ==
    /\ scenarios = << >>
    /\ orch = [pc |-> "map", i |-> 1, mapIdx |-> 1, printed |-> FALSE, anyError |-> FALSE]
    /\ run = << >>
    /\ RESULTS = << >>
    /\ invs = << >>
    /\ numberOfReceivedMessages = [d \in Defs |-> 0]
    /\ reconnected = [d \in Defs |-> 0]
    /\ receivedMessages = [d \in Defs |-> {}]
    /\ wsInstance = [d \in Defs |-> 0]
    /\ diagram = {}
    /\ exitStatus = "running"
    /\ cache = << >>
    /\ \E kind \in TemplateKinds, tm \in TemplateMaps, om \in OverrideMaps,
          tv \in TemplateVals, ov \in OverrideVals :
          derived = [pc |-> "args", kind |-> kind, tm |-> tm, om |-> om,
                     tv |-> tv, ov |-> ov, td |-> tm, od |-> om,
                     tr |-> List(<< >>), orv |-> UndefinedList]
    /\ codec = [pc |-> "none"]

NextTemplate ==
    \/ FromTemplate
    \/ \E f \in {"queryParameters", "restHead", "data", "form", "responseValidation",
                  "variables", "expectedStatusCodes", "headers", "messageFilter"} :
          DerivedWrite(f)

SpecTemplate == InitTemplate /\ [][NextTemplate]_vars

\* the list specification: fromTemplate applied to templates and overrides
\* whose data and response validations are lists, or maps, of the bounded
\* sets
InitLists ==
    /\ scenarios = << >>
    /\ orch = [pc |-> "map", i |-> 1, mapIdx |-> 1, printed |-> FALSE, anyError |-> FALSE]
    /\ run = << >>
    /\ RESULTS = << >>
    /\ invs = << >>
    /\ numberOfReceivedMessages = [d \in Defs |-> 0]
    /\ reconnected = [d \in Defs |-> 0]
    /\ receivedMessages = [d \in Defs |-> {}]
    /\ wsInstance = [d \in Defs |-> 0]
    /\ diagram = {}
    /\ exitStatus = "running"
    /\ cache = << >>
    /\ \E kind \in {"REST", "WEBSOCKET"}, tm \in TemplateMaps, om \in OverrideMaps :
          \E td \in TemplateData(tm), od \in OverrideData(om),
             tr \in TemplateLists, orv \in OverrideLists \cup {UndefinedList} :
             derived = [pc |-> "args", kind |-> kind, tm |-> tm, om |-> om,
                        tv |-> "t1", ov |-> "o1", td |-> td, od |-> od,
                        tr |-> tr, orv |-> orv]
    /\ codec = [pc |-> "none"]

SpecLists == InitLists /\ [][NextTemplate]_vars

\* the codec specification: encodeProto applied to every object of the
\* bounded sets and decodeProto to the bytes it returns
InitProto ==
    /\ scenarios = << >>
    /\ orch = [pc |-> "map", i |-> 1, mapIdx |-> 1, printed |-> FALSE, anyError |-> FALSE]
    /\ run = << >>
    /\ RESULTS = << >>
    /\ invs = << >>
    /\ numberOfReceivedMessages = [d \in Defs |-> 0]
    /\ reconnected = [d \in Defs |-> 0]
    /\ receivedMessages = [d \in Defs |-> {}]
    /\ wsInstance = [d \in Defs |-> 0]
    /\ diagram = {}
    /\ exitStatus = "running"
    /\ cache = << >>
    /\ derived = [pc |-> "none"]
    /\ \E o \in ProtoObjects :
          codec = [pc |-> "args", object |-> o, bytes |-> << >>, error |-> "",
                   result |-> [class |-> "none"]]

NextProto == EncodeProto \/ DecodeProto

SpecProto == InitProto /\ [][NextProto]_vars

\* scenario collections in which one action object is invoked more than once
SharedLayouts ==
    { << << "m1", "m1" >> >>,
      << << "w1", "w1" >> >>,
      << << "r1" >>, << "r1" >> >> }

InitShared == \E layout \in SharedLayouts : InitWith(layout)

SpecShared == InitShared /\ [][Next]_vars

\* ------------------------------------------------------------------------
\* Properties
\* ------------------------------------------------------------------------
\* the handles of the invocations made by scenario s
HandlesOf(s) == { h \in Handles : invs[h].scen = s }

\* the position of invocation h among the invocations of its scenario
Rank(h) == Cardinality({ g \in HandlesOf(invs[h].scen) : g <= h })

\* the k-th invocation of scenario s
Nth(s, k) == CHOOSE h \in HandlesOf(s) : Rank(h) = k

Ended(s) == run[s].pc \in {"done", "threw"}

\* C1: within one scenario the actions are invoked in list order and one at
\* a time: the k-th invocation of a scenario is of its k-th action, and when
\* a later invocation exists, the earlier one has completed and its
\* TestResult is in the log.
C1_Sequential ==
    \A h \in Handles :
        LET s == invs[h].scen
        IN /\ Rank(h) <= Len(scenarios[s])
           /\ invs[h].def = scenarios[s][Rank(h)]
           /\ Rank(h) < Cardinality(HandlesOf(s)) =>
                 /\ invs[h].promise # "pending"
                 /\ s \in DOMAIN RESULTS
                 /\ Rank(h) <= Len(RESULTS[s])

\* a scenario has invoked its second action
C1_Witness ==
    \E s \in Scen : Cardinality(HandlesOf(s)) >= 2 /\ run[s].pc = "await"

\* C2: fail-fast: a failed invocation is the last one its scenario makes,
\* a scenario that has ended after a failure is Failed, and a scenario ends
\* Succeeded only with every action invoked and completed successfully.
C2_FailFast ==
    \A s \in Scen :
        /\ \A h \in HandlesOf(s) :
               invs[h].promise = "rejected" =>
                   /\ Rank(h) = Cardinality(HandlesOf(s))
                   /\ Ended(s) => ~run[s].successful
        /\ (Ended(s) /\ run[s].successful) =>
               /\ run[s].pc = "done"
               /\ Cardinality(HandlesOf(s)) = Len(scenarios[s])
               /\ \A h \in HandlesOf(s) : invs[h].promise = "resolved"

\* a scenario ended Failed with actions it never invoked
C2_Witness ==
    \E s \in Scen :
        /\ Ended(s) /\ ~run[s].successful
        /\ Cardinality(HandlesOf(s)) < Len(scenarios[s])

\* the state part of C3
C3_LogShape ==
    \A s \in DOMAIN RESULTS :
        /\ Len(RESULTS[s]) =
               IF run[s].pc = "await" THEN run[s].idx - 1 ELSE run[s].idx
        /\ \A k \in 1..Len(RESULTS[s]) :
               /\ RESULTS[s][k].action = scenarios[s][k]
               /\ RESULTS[s][k].successful = (invs[Nth(s, k)].promise = "resolved")
               /\ k < Len(RESULTS[s]) => RESULTS[s][k].successful

\* the step part of C3: a log only grows at its end
C3_AppendOnly ==
    \A s \in DOMAIN RESULTS :
        /\ s \in DOMAIN RESULTS'
        /\ Len(RESULTS'[s]) >= Len(RESULTS[s])
        /\ SubSeq(RESULTS'[s], 1, Len(RESULTS[s])) = RESULTS[s]

\* C3: the result log of a scenario holds one TestResult per action whose
\* completion was observed, in action order and with that action's outcome;
\* entries are only appended; at most one entry is a failure, the last one.
C3_ResultLog == []C3_LogShape /\ [][C3_AppendOnly]_vars

\* a log of a success followed by a failure
C3_Witness ==
    \E s \in DOMAIN RESULTS :
        /\ Len(RESULTS[s]) = 2
        /\ RESULTS[s][1].successful
        /\ ~RESULTS[s][2].successful

BatchStart(s) == ((s - 1) \div NUM_PARALLEL_RUNS) * NUM_PARALLEL_RUNS + 1

\* C5: at most NUM_PARALLEL_RUNS scenarios run at any moment, and a
\* scenario is started only when every scenario of the earlier batches has
\* finished.
C5_Batches ==
    /\ Cardinality({ s \in Scen : run[s].pc = "await" }) <= NUM_PARALLEL_RUNS
    /\ \A s \in Scen :
           run[s].pc # "notStarted" =>
               \A u \in Scen : u < BatchStart(s) => Ended(u)

\* the second batch runs after a first batch with a failed scenario
C5_Witness ==
    /\ Len(scenarios) > NUM_PARALLEL_RUNS
    /\ run[NUM_PARALLEL_RUNS + 1].pc = "await"
    /\ \E u \in 1..NUM_PARALLEL_RUNS : ~run[u].successful

\* C6: cancel() is called on every WebSocket handle of a scenario exactly
\* once, when the scenario's loop is over and every invocation it awaited
\* has completed, and not before; it is never called on other handles.
C6_Cancel ==
    \A h \in Handles :
        LET s == invs[h].scen
        IN IF ActionType(invs[h].def) = "WEBSOCKET"
           THEN /\ invs[h].cancelCalls = (IF Ended(s) THEN 1 ELSE 0)
                /\ invs[h].cancelCalls > 0 =>
                       \A g \in HandlesOf(s) : invs[g].promise # "pending"
           ELSE invs[h].cancelCalls = 0

\* a scenario ended with two cancelled WebSocket handles, the second failed
C6_Witness ==
    \E s \in Scen :
        /\ Ended(s)
        /\ Len(run[s].ASYNC_ACTIONS) = 2
        /\ invs[run[s].ASYNC_ACTIONS[1]].promise = "resolved"
        /\ invs[run[s].ASYNC_ACTIONS[2]].promise = "rejected"
        /\ \A k \in 1..2 : invs[run[s].ASYNC_ACTIONS[k]].cancelCalls = 1

\* C7: an MQTT subscribe invocation never completes successfully before
\* its listen timer has fired.
C7_SuccessOnlyAfterTimer ==
    \A h \in Handles :
        (ActionType(invs[h].def) = "MQTT" /\ invs[h].promise = "resolved")
            => invs[h].timerFired

\* C8 as stated: whenever the connection closes, the invocation succeeds
\* if the received count equals the expected count, and otherwise fails
\* with the mismatch reported.
C8_CloseDecides ==
    [][ \A h \in Handles :
            MqttClose(h) =>
                LET d == invs[h].def
                IN IF numberOfReceivedMessages[d] = expectedNumberOfMessages(d)
                   THEN invs'[h].promise = "resolved"
                   ELSE /\ invs'[h].promise = "rejected"
                        /\ Missing(h, "count") \in diagram' ]_vars

\* C8, amended: a close of the connection completes an invocation that has
\* not completed yet, with success exactly if the action's received count
\* equals the expected count; a completed invocation keeps its outcome; with
\* any other count the mismatch is reported.
C8_CloseDecidesPending ==
    [][ \A h \in Handles :
            MqttClose(h) =>
                LET d == invs[h].def
                    equal == numberOfReceivedMessages[d] = expectedNumberOfMessages(d)
                IN /\ invs[h].promise = "pending" =>
                          invs'[h].promise = (IF equal THEN "resolved" ELSE "rejected")
                   /\ invs[h].promise # "pending" =>
                          invs'[h].promise = invs[h].promise
                   /\ ~equal => Missing(h, "count") \in diagram' ]_vars

\* a close succeeded with the expected count, and a close with more
\* messages than expected was reported
C8_Witness ==
    \E h \in Handles :
        /\ ActionType(invs[h].def) = "MQTT"
        /\ invs[h].conn = "ended"
        /\ numberOfReceivedMessages[invs[h].def] > expectedNumberOfMessages(invs[h].def)
        /\ invs[h].promise = "rejected"
        /\ ~invs[h].errorSeen
        /\ Missing(h, "count") \in diagram

\* C9: a subscribe error or a connection error makes the completion of the
\* invocation a failure, and it stays one.
C9_ErrorFails ==
    \A h \in Handles :
        (ActionType(invs[h].def) = "MQTT" /\ invs[h].errorSeen)
            => invs[h].promise = "rejected"

\* C10: the counters an invocation works with hold what that invocation
\* itself has received and done: the received count of an MQTT subscribe
\* invocation, the received set and the reconnect count of a WebSocket one.
C10_StatePerInvocation ==
    \A h \in Handles :
        LET d == invs[h].def
        IN /\ IsMqtt(h) => numberOfReceivedMessages[d] = invs[h].ownCount
           /\ IsWs(h) => /\ receivedMessages[d] = invs[h].own
                         /\ reconnected[d] = invs[h].sockets - 1

\* ------------------------------------------------------------------------
\* WebSocket invocation: reconnects, payload, completion by the count
\* ------------------------------------------------------------------------
\* reconnects an invocation has made: the sockets it created after its first
Reconnects(h) == invs[h].sockets - 1

\* C11: over any sequence of abnormal closures a WebSocket invocation
\* reconnects at most MAX_RECONNECTIONS (3) times.
C11_ReconnectBound ==
    \A h \in Handles : IsWs(h) => Reconnects(h) <= MAX_RECONNECTIONS

\* C12 (payload): over all connections of a WebSocket invocation the initial
\* payload is sent at most once.
C12_PayloadOnce ==
    \A h \in Handles : IsWs(h) => invs[h].sent <= 1

\* C12 (reconnect): a 1006 close of an invocation that has used fewer than
\* MAX_RECONNECTIONS reconnects creates exactly one new socket, and the
\* invocation gets a new socket in no other way.
C12_OneReconnect ==
    \A h \in Handles :
        /\ (WsClose(h, 1006) /\ Reconnects(h) < MAX_RECONNECTIONS)
               => /\ invs'[h].sockets = invs[h].sockets + 1
                  /\ invs'[h].sock = "connecting"
        /\ invs'[h].sockets # invs[h].sockets
               => /\ invs'[h].sockets = invs[h].sockets + 1
                  /\ WsClose(h, 1006)

\* C12: the payload is sent at most once over all connections of a
\* WebSocket invocation, and every 1006 close within the reconnect bound
\* triggers exactly one reconnect.
C12_PayloadAndReconnect == []C12_PayloadOnce /\ [][C12_OneReconnect]_vars

\* an invocation that sent its payload on the first socket is open again on
\* its third socket and has sent it once
C12_Witness ==
    \E h \in Handles :
        /\ IsWs(h)
        /\ invs[h].sockets = 3
        /\ invs[h].sock = "open"
        /\ invs[h].sent = 1

IsRest(h) == ActionType(invs[h].def) = "REST"

\* the .then handler of the response ran in this step for invocation h
Handled(h, resp) == RestReply(h, resp) /\ invs'[h].req = None

\* C14: a REST invocation whose response status is not one of the expected
\* status codes fails, whatever the headers and the body of the response and
\* whatever validations the action has, and it leaves every scenario cache
\* as it was.
C14_UnexpectedStatusFails ==
    [][ \A h \in Handles, resp \in Responses :
            (Handled(h, resp) /\ resp.status \notin expectedStatusCodes(invs[h].def))
                => /\ invs'[h].promise = "rejected"
                   /\ cache' = cache ]_vars

\* an invocation with validations and variables got a response with an
\* unexpected status: it failed and its scenario's cache is empty
C14_Witness ==
    \E h \in Handles :
        /\ invs[h].def = "r2"
        /\ invs[h].req = None
        /\ invs[h].promise = "rejected"
        /\ [kind |-> "failedResponse", scen |-> invs[h].scen] \in diagram
        /\ \A k \in CacheKeys : cache[invs[h].scen][k] = None

\* C15: a REST invocation makes at most 3 HTTP attempts, and no attempt
\* follows a response, whatever its status code.
C15_RetryOnlyTransport ==
    /\ [](\A h \in Handles : IsRest(h) => invs[h].attempts <= 3)
    /\ [][ \A h \in Handles, resp \in Responses :
              RestReply(h, resp) => invs'[h].attempts <= invs[h].attempts ]_vars

\* C16: with an expected status, a head. or res. predicate that evaluates
\* falsy or throws makes the invocation a failure; the rest of the handler
\* (later predicates, the cache update, the final resolve) does not make it
\* a success, and a failed invocation stays failed.
C16_ValidationFails ==
    [][ \A h \in Handles :
          /\ \A resp \in Responses :
               LET d == invs[h].def
                   headFails ==
                       \E i \in 1..Len(responseValidation(d)) :
                           /\ responseValidation(d)[i] \in HeadPredicates
                           /\ Eval(responseValidation(d)[i], resp.head) # "truthy"
                   bodyFails ==
                       /\ resp.body \notin {"null", "malformed"}
                       /\ \E i \in 1..Len(responseValidation(d)) :
                           /\ responseValidation(d)[i] \in ResPredicates
                           /\ Eval(responseValidation(d)[i], resp.body) # "truthy"
               IN (/\ Handled(h, resp)
                   /\ resp.status \in expectedStatusCodes(d)
                   /\ headFails \/ bodyFails)
                      => invs'[h].promise = "rejected"
          /\ (IsRest(h) /\ invs[h].promise = "rejected")
                 => invs'[h].promise = "rejected" ]_vars

\* an invocation failed on its first head. predicate although its body
\* passed every res. predicate and the handler ran to its final resolve
C16_Witness ==
    \E h \in Handles :
        /\ invs[h].def = "r2"
        /\ invs[h].req = None
        /\ invs[h].promise = "rejected"
        /\ cache[invs[h].scen]["kh"] = "h2"
        /\ cache[invs[h].scen]["kr"] = "b1"
        /\ [kind |-> "successfulResponseBody", scen |-> invs[h].scen] \in diagram

\* C17: the handler of a response that leaves the invocation failed leaves
\* the scenario caches exactly as they were.
C17_CacheOnlyOnSuccess ==
    [][ \A h \in Handles, resp \in Responses :
            (Handled(h, resp) /\ invs'[h].promise # "resolved")
                => cache' = cache ]_vars

\* C18 (origin): an entry of a scenario's cache was written by an action of
\* that scenario whose variables map has a res or head rule for the key.
C18_Origin ==
    \A s \in Scen, k \in CacheKeys :
        cache[s][k] # None =>
            \E h \in HandlesOf(s) :
                /\ IsRest(h)
                /\ invs[h].req = None
                /\ variables(invs[h].def).defined
                /\ k \in DOMAIN variables(invs[h].def).rules
                /\ variables(invs[h].def).rules[k] \in {"res", "head"}

\* C18 (writes and reads): a scenario's cache is changed only by the
\* response handler of the action that scenario is awaiting, and an action
\* that is invoked reads the cache of its own scenario as it stands.
C18_WriteRead ==
    /\ \A s \in Scen :
          cache'[s] # cache[s] =>
              \E h \in HandlesOf(s) :
                  /\ run[s].pc = "await" /\ run[s].cur = h
                  /\ invs[h].req = "pending" /\ invs'[h].req = None
    /\ \A h \in (DOMAIN invs') \ (DOMAIN invs) :
          /\ cache' = cache
          /\ invs'[h].seen = cache[invs'[h].scen]

\* C18: a cache entry written by an action of a scenario is what every later
\* action of that scenario reads until a later action of the scenario writes
\* the key again, and no action of another scenario reads or writes it.
C18_CacheScope == []C18_Origin /\ [][C18_WriteRead]_vars

\* the second action of a scenario read the entry the first one wrote and
\* has overwritten it, while the other scenario's cache holds its own entry
C18_Witness ==
    \E h \in Handles :
        /\ invs[h].def = "r3"
        /\ invs[h].seen["kr"] = "b1"
        /\ cache[invs[h].scen]["kr"] = "b2"
        /\ invs[h].promise = "resolved"
        /\ \E t \in Scen : t # invs[h].scen /\ cache[t]["kr"] = "bT"

\* ------------------------------------------------------------------------
\* fromTemplate
\* ------------------------------------------------------------------------
\* the associative fields fromTemplate merges, per variant
AssociativeFields(kind) ==
    CASE kind = "REST" -> {"restHead", "queryParameters", "form", "variables"}
      [] kind = "WEBSOCKET" -> {"headers"}
      [] OTHER -> {}

\* the fields fromTemplate takes whole, per variant
ScalarFields(kind) ==
    CASE kind = "REST" -> {"url", "method", "expectedStatusCodes"}
      [] kind = "WEBSOCKET" -> {"url", "expectedNumberOfMessages", "messageFilter",
                                "invokeEvenOnFail", "allowFailure"}
      [] kind \in {"MQTT", "MQTT_PUBLISH"} -> {"url", "topic", "username"}

\* C19: every associative field of the derived action holds the template's
\* entries overridden key by key by the override's entries; with a template
\* that has no such field, the override's entries.
C19_AssociativeMerge ==
    derived.pc = "done" =>
        \A f \in AssociativeFields(derived.kind), k \in MergeKeys :
            derived.action[f].at[k] =
                (IF derived.om.at[k] # None THEN derived.om.at[k]
                 ELSE derived.tm.at[k])

\* C20: every field taken whole has the override's value when the override
\* defines the field (a falsy value included), and the template's otherwise.
C20_ScalarOverride ==
    derived.pc = "done" =>
        \A f \in ScalarFields(derived.kind) :
            derived.action[f] =
                (IF DefinitionOf(derived)[f].v # "undefined"
                 THEN DefinitionOf(derived)[f]
                 ELSE TemplateOf(derived)[f])

\* C21: fromTemplate leaves the maps and lists of the template as they
\* were, and a later change of a merged map or list of the derived action
\* changes no map or list of the template.
C21_TemplateUntouched ==
    /\ derived.pc = "done" => derived.touched = {}
    /\ (derived.pc = "written" /\ derived.wrote \in MergedFields(derived.kind))
           => derived.touched = {}

C21_Witness ==
    /\ derived.pc = "written"
    /\ derived.kind = "REST"
    /\ derived.wrote = "restHead"
    /\ derived.tm.is = "object"
    /\ \E k \in MergeKeys : derived.om.at[k] # None

\* ------------------------------------------------------------------------
\* MQTT publish
\* ------------------------------------------------------------------------
\* C22: the promise of an MQTT publish invocation is resolved, and the
\* TestResult the runner records for an MQTT publish action is a success,
\* whatever the client's events are.
C22_PublishNeverFails ==
    /\ \A h \in Handles :
           ActionType(invs[h].def) = "MQTT_PUBLISH" => invs[h].promise = "resolved"
    /\ \A s \in DOMAIN RESULTS : \A i \in 1..Len(RESULTS[s]) :
           ActionType(RESULTS[s][i].action) = "MQTT_PUBLISH" => RESULTS[s][i].successful

C22_Witness ==
    \E h \in Handles :
        /\ IsPublish(h)
        /\ invs[h].errorSeen
        /\ invs[h].drops > 0
        /\ invs[h].publishes > 0
        /\ invs[h].pubPending = 0
        /\ invs[h].scen \in DOMAIN RESULTS
        /\ \E i \in 1..Len(RESULTS[invs[h].scen]) :
               /\ RESULTS[invs[h].scen][i].action = invs[h].def
               /\ RESULTS[invs[h].scen][i].successful

\* C30: an MQTT publish invocation calls client.publish at most once.
C30_PublishOnce ==
    \A h \in Handles : IsPublish(h) => invs[h].publishes <= 1

\* ------------------------------------------------------------------------
\* Runner, flags and WebSocket handles
\* ------------------------------------------------------------------------
\* C23: the flags change nothing: a failed invocation of an action with
\* allowFailure has a failed TestResult and is the last invocation of its
\* scenario, and an action with invokeEvenOnFail is invoked only when every
\* earlier invocation of its scenario has completed successfully.
C23_FlagsIgnored ==
    \A h \in Handles :
        LET s == invs[h].scen
        IN /\ (allowFailure(invs[h].def) /\ invs[h].promise = "rejected") =>
                 /\ Rank(h) = Cardinality(HandlesOf(s))
                 /\ (s \in DOMAIN RESULTS /\ Rank(h) <= Len(RESULTS[s])) =>
                        ~RESULTS[s][Rank(h)].successful
                 /\ Ended(s) => ~run[s].successful
           /\ invokeEvenOnFail(invs[h].def) =>
                 \A g \in HandlesOf(s) : g < h => invs[g].promise = "resolved"

\* a scenario ended after the failure of an action with allowFailure, the
\* next action has invokeEvenOnFail and was not invoked
C23_Witness ==
    \E s \in Scen :
        /\ Ended(s)
        /\ Cardinality(HandlesOf(s)) < Len(scenarios[s])
        /\ invokeEvenOnFail(scenarios[s][Cardinality(HandlesOf(s)) + 1])
        /\ \E h \in HandlesOf(s) :
               /\ Rank(h) = Cardinality(HandlesOf(s))
               /\ allowFailure(invs[h].def)
               /\ invs[h].promise = "rejected"
               /\ Len(RESULTS[s]) = Rank(h)
               /\ ~RESULTS[s][Rank(h)].successful

\* C24 as stated: the runner is never suspended on the pending promise of a
\* WebSocket invocation (it goes on to the following action without waiting
\* for the invocation to complete).
C24_NoWaitForWebSocket ==
    \A s \in DOMAIN run :
        ~ /\ run[s].pc = "await"
          /\ ActionType(invs[run[s].cur].def) = "WEBSOCKET"
          /\ invs[run[s].cur].promise = "pending"
          /\ Quiescent

\* C24, amended: the runner awaits a WebSocket invocation like any other
\* (a later invocation of the scenario exists only when the WebSocket
\* invocation has completed); the handle is in the scenario's background
\* set from its invocation on, and cancel() is not called on it before the
\* scenario's loop is over.
C24_WebSocketAwaited ==
    \A h \in Handles :
        ActionType(invs[h].def) = "WEBSOCKET" =>
            LET s == invs[h].scen
            IN /\ \E k \in 1..Len(run[s].ASYNC_ACTIONS) : run[s].ASYNC_ACTIONS[k] = h
               /\ (\E g \in HandlesOf(s) : g > h) => invs[h].promise = "resolved"
               /\ ~Ended(s) => invs[h].cancelCalls = 0

\* a scenario goes on after a WebSocket invocation that has completed and
\* is still in the background set
C24_Witness ==
    \E h \in Handles :
        /\ ActionType(invs[h].def) = "WEBSOCKET"
        /\ invs[h].promise = "resolved"
        /\ \E g \in HandlesOf(invs[h].scen) : g > h /\ invs[g].promise = "pending"
        /\ run[invs[h].scen].pc = "await"
        /\ run[invs[h].scen].ASYNC_ACTIONS = << h >>

\* ------------------------------------------------------------------------
\* Message counting and filters
\* ------------------------------------------------------------------------
\* C25: a 'message' event of an MQTT subscribe invocation adds one to the
\* action's received count when the message passes a filter (or no filter
\* is configured) and leaves the count unchanged when the message fails
\* every filter; no step decreases a received count.
C25_CountPerRelevant ==
    [][ /\ \A h \in Handles, msg \in Messages :
              MqttMessage(h, msg) =>
                  numberOfReceivedMessages'[invs[h].def] =
                      numberOfReceivedMessages[invs[h].def]
                          + (IF isMessageRelevant(invs[h].def, msg) THEN 1 ELSE 0)
        /\ \A d \in Defs :
              numberOfReceivedMessages'[d] >= numberOfReceivedMessages[d] ]_vars

\* an MQTT invocation has received a relevant and an irrelevant message
C25_Witness ==
    \E h \in Handles :
        /\ IsMqtt(h)
        /\ invs[h].delivered = 2
        /\ numberOfReceivedMessages[invs[h].def] = 1

\* no filter predicate is configured, or one is truthy for the message
NoFilterOrSomeTruthy(d, msg) ==
    \/ ~messageFilter(d).defined
    \/ Len(messageFilter(d).filters) = 0
    \/ \E k \in 1..Len(messageFilter(d).filters) : msg \in messageFilter(d).filters[k]

\* C26: an MQTT subscribe or WebSocket 'message' event counts the message
\* exactly when no filter predicate is configured (the list is absent or
\* empty) or at least one predicate is truthy for the message.
C26_RelevantIff ==
    [][ \A h \in Handles, msg \in Messages :
           /\ MqttMessage(h, msg) =>
                  ((numberOfReceivedMessages'[invs[h].def] =
                        numberOfReceivedMessages[invs[h].def] + 1)
                      <=> NoFilterOrSomeTruthy(invs[h].def, msg))
           /\ WsMessage(h, msg) =>
                  ((invs'[h].ownCount = invs[h].ownCount + 1)
                      <=> NoFilterOrSomeTruthy(invs[h].def, msg)) ]_vars

\* ------------------------------------------------------------------------
\* WebSocket payload and received set
\* ------------------------------------------------------------------------
\* C27: a WebSocket invocation of an action with a payload that has an open
\* socket has sent the payload, whichever of its sockets was the first to
\* open.
C27_PayloadOnFirstOpen ==
    \A h \in Handles :
        (IsWs(h) /\ data(invs[h].def) /\ invs[h].sock = "open") => invs[h].sent >= 1

\* C28: the received count of a WebSocket action is the number of relevant
\* messages its invocation has received, two messages of the same text
\* included.
C28_CountByIdentity ==
    \A h \in Handles :
        IsWs(h) => Cardinality(receivedMessages[invs[h].def]) = invs[h].ownCount

\* ------------------------------------------------------------------------
\* REST request record
\* ------------------------------------------------------------------------
\* C29: when the request of a REST invocation ends (with a response that is
\* handled, or with a transport failure on the last attempt), the diagram
\* of the scenario holds the record of the outgoing request.
C29_RequestRecorded ==
    [][ \A h \in Handles :
           ( /\ \/ RestNetworkError(h)
                \/ \E resp \in Responses : RestReply(h, resp)
             /\ invs'[h].req = None )
           => [kind |-> "request", scen |-> invs[h].scen] \in diagram' ]_vars

\* ------------------------------------------------------------------------
\* Connections are released
\* ------------------------------------------------------------------------
\* C31: from some moment on, the client of every MQTT publish invocation
\* that has attempted its publish is ended (or the process is over).
C31_PublishCloses ==
    <>[](\A h \in Handles :
            (IsPublish(h) /\ invs[h].publishes >= 1) =>
                (invs[h].conn = "ended" \/ exitStatus # "running"))

\* C37: when a scenario has invoked the action that follows an MQTT publish
\* action, the publish invocation has handed its message to the client.
C37_PublishedBeforeNext ==
    \A h \in Handles :
        (IsPublish(h) /\ \E g \in HandlesOf(invs[h].scen) : g > h)
            => invs[h].publishes >= 1

\* C39: from some moment on, the client of every MQTT subscribe invocation
\* that has completed is ended (or the process is over).
C39_SubscribeCloses ==
    <>[](\A h \in Handles :
            (IsMqtt(h) /\ invs[h].promise # "pending") =>
                (invs[h].conn = "ended" \/ exitStatus # "running"))

\* C36: from some moment on, every scenario that was started has ended
\* (Succeeded or Failed, its WebSocket handles cancelled), unless the process
\* is over or the scenario waits for an invocation that is not a WebSocket
\* invocation.
C36_ScenarioEnds ==
    <>[](\A s \in Scen :
            run[s].pc # "notStarted" =>
                \/ Ended(s)
                \/ exitStatus # "running"
                \/ /\ run[s].pc = "await"
                   /\ ActionType(invs[run[s].cur].def) # "WEBSOCKET")

\* C38: a WebSocket invocation whose handle has been cancelled gets no new
\* socket.
C38_NoSocketAfterCancel ==
    [][ \A h \in Handles :
           invs[h].cancelCalls >= 1 => invs'[h].sockets = invs[h].sockets ]_vars

\* ------------------------------------------------------------------------
\* Failures outside the invocation's promise
\* ------------------------------------------------------------------------
\* C40: a scenario that has ended with a WebSocket invocation that failed
\* before it created a socket holds a failed TestResult for the action, its
\* cancel loop has not thrown, and the batch has not been rejected.
C40_FailureBeforeSocket ==
    \A h \in Handles :
        LET s == invs[h].scen
        IN (ActionType(invs[h].def) = "WEBSOCKET" /\ invs[h].sockets = 0 /\ Ended(s)) =>
               /\ Len(RESULTS[s]) >= Rank(h)
               /\ ~RESULTS[s][Rank(h)].successful
               /\ run[s].pc = "done"
               /\ orch.pc # "rejected"

\* C33: once every scenario has ended and the orchestrator has left its
\* batch loop, the summary is printed and the finalization of the diagram
\* of every started scenario is triggered; the overall outcome is delivered
\* only after the summary and after every finalization has completed.
C33_Finalization ==
    /\ ((\A s \in Scen : Ended(s)) /\ orch.pc \notin {"map", "await"}) =>
           /\ orch.printed
           /\ \A s \in Scen : [kind |-> "generate", scen |-> s] \in diagram
    /\ (exitStatus = "exit1" \/ orch.pc = "returned") =>
           /\ orch.printed
           /\ \A s \in Scen : [kind |-> "generated", scen |-> s] \in diagram

\* C32: a 'message' event of an MQTT subscribe or WebSocket invocation
\* whose payload cannot be parsed makes the invocation fail and leaves the
\* process running (no uncaught exception).
C32_HandlerFailureRejects ==
    [][ \A h \in Handles, msg \in Unparsable :
           (MqttMessage(h, msg) \/ WsMessage(h, msg)) =>
               /\ invs'[h].promise = "rejected"
               /\ exitStatus' = "running" ]_vars

\* C34: the response validations of a derived REST action are the
\* template's list followed by the override's list; the data of a derived
\* REST or WebSocket action is the template's list followed by the
\* override's list when the template's data is a list, and otherwise the
\* template's entries overridden key by key by the override's entries (the
\* override's data when the template has none).
C34_ListsAccumulate ==
    derived.pc = "done" =>
        /\ derived.kind = "REST" =>
               derived.action.responseValidation =
                   List(derived.tr.items \o derived.orv.items)
        /\ (derived.td.is = "list" /\ derived.od.is \in {"list", "undefined"}) =>
               derived.action.data =
                   List(derived.td.items
                            \o (IF derived.od.is = "list" THEN derived.od.items
                                ELSE << >>))
        /\ derived.td.is = "object" =>
               /\ derived.action.data.is = "object"
               /\ \A k \in MergeKeys :
                      derived.action.data.at[k] =
                          (IF derived.od.is = "object" /\ derived.od.at[k] # None
                           THEN derived.od.at[k] ELSE derived.td.at[k])
        /\ derived.td.is = "undefined" => derived.action.data = derived.od

\* a REST action derived from a template and an override that both hold
\* two response validations and a list of data
C34_Witness ==
    /\ derived.pc = "done"
    /\ derived.kind = "REST"
    /\ derived.tr = List(<< "t1", "t2" >>)
    /\ derived.orv = List(<< "o2", "o1" >>)
    /\ derived.td = List(<< "t1" >>)
    /\ derived.od = List(<< "o2", "o1" >>)
    /\ derived.action.data = List(<< "t1", "o2", "o1" >>)

\* ------------------------------------------------------------------------
\* The proto codec
\* ------------------------------------------------------------------------
\* C35: decodeProto applied to the bytes encodeProto returns for an object
\* yields an object with the same field values, and encodeProto raises an
\* error and returns no bytes for an object that does not verify.
C35_RoundTrip ==
    /\ codec.pc = "decoded" => codec.result = codec.object
    /\ (codec.pc \notin {"none", "args"} /\ Verify(codec.object) = "") =>
           codec.pc \in {"encoded", "decoded"}
    /\ (codec.pc \notin {"none", "args"} /\ Verify(codec.object) # "") =>
           (codec.pc = "encodeError" /\ codec.bytes = << >>)

====
